---- MODULE Spec2Model ----
(***************************************************************************)
(* A model of lisa's work loop (src/lisa/phases/work.py), its verification *)
(* engine (src/lisa/phases/verify.py) and its two persistence stores: the  *)
(* Progress Document (src/lisa/state/comment.py) and the commit trailers   *)
(* (src/lisa/git/commit.py, src/lisa/state/git.py).                        *)
(*                                                                         *)
(* Text is modelled character by character: a string is a sequence of      *)
(* characters and a character is a TLA+ string standing for one code       *)
(* point ("<-" stands for U+2190, "bot" for U+1F916, "tick" for a       *)
(* backquote).  A document body is the sequence of its lines, i.e.         *)
(* body.split("\n").                                                       *)
(***************************************************************************)
EXTENDS Integers, Sequences, FiniteSets, TLC

\* Python's None, where the other values are strings.
None == <<"None">>
\* Python's None, where the other values are integers >= 0 (a step id, a count).
NoneInt == 0 - 1
\* No match of a pattern, where a match is a string.
NoMatch == <<"no match">>

(***************************************************************************)
(* Bounds of the model.                                                    *)
(***************************************************************************)
\* Longest plan the document round trip is fed with.
MaxDocSteps == 2

(***************************************************************************)
(* Python string primitives.                                               *)
(***************************************************************************)
SetMin(S) == CHOOSE x \in S : \A y \in S : x <= y
SetMax(S) == CHOOSE x \in S : \A y \in S : x >= y

RECURSIVE Cat(_)
\* "".join(parts): the concatenation of a sequence of strings.
Cat(parts) == IF parts = <<>> THEN <<>> ELSE Head(parts) \o Cat(Tail(parts))

DigitChars == <<"0", "1", "2", "3", "4", "5", "6", "7", "8", "9">>
IsDigit(c) == \E d \in 1..10 : DigitChars[d] = c
DigitVal(c) == (CHOOSE d \in 1..10 : DigitChars[d] = c) - 1

RECURSIVE StrOfInt(_)
\* str(n) for n >= 0.
StrOfInt(n) ==
    IF n < 10 THEN <<DigitChars[n + 1]>>
    ELSE StrOfInt(n \div 10) \o <<DigitChars[(n % 10) + 1]>>

RECURSIVE IntOfDigits(_)
IntOfDigits(s) ==
    IF Len(s) = 1 THEN DigitVal(s[1])
    ELSE IntOfDigits(SubSeq(s, 1, Len(s) - 1)) * 10 + DigitVal(s[Len(s)])

\* int(s): the value, or None where Python raises ValueError.
IntOfStr(s) ==
    IF Len(s) > 0 /\ \A i \in 1..Len(s) : IsDigit(s[i]) THEN IntOfDigits(s) ELSE NoneInt

\* s.strip()
Strip(s) ==
    LET idx == {i \in 1..Len(s) : s[i] # " "}
    IN  IF idx = {} THEN <<>> ELSE SubSeq(s, SetMin(idx), SetMax(idx))

\* s.startswith(p)
StartsWith(s, p) == Len(p) <= Len(s) /\ SubSeq(s, 1, Len(p)) = p

\* the literal lit occurs in s at position i
MatchAt(s, i, lit) ==
    /\ i >= 1
    /\ i + Len(lit) - 1 <= Len(s)
    /\ \A k \in 1..Len(lit) : s[i + k - 1] = lit[k]

RECURSIVE Split(_, _)
\* s.split(sep) for a one-character separator.
Split(s, sep) ==
    LET idx == {i \in 1..Len(s) : s[i] = sep}
    IN  IF idx = {} THEN <<s>>
        ELSE LET i == SetMin(idx)
             IN  <<SubSeq(s, 1, i - 1)>> \o Split(SubSeq(s, i + 1, Len(s)), sep)

RECURSIVE Join(_, _)
\* sep.join(texts)
Join(texts, sep) ==
    IF texts = <<>> THEN <<>>
    ELSE IF Len(texts) = 1 THEN texts[1]
    ELSE texts[1] \o sep \o Join(Tail(texts), sep)

\* \s within one line
IsSpace(c) == c = " "

\* [^)]
IsNotParen(c) == c # ")"

\* [A-Z]
IsUpper(c) == c \in {"P", "Q"}

\* the character classes of the patterns: \s, \d, [A-Z] and [^)]
InClass(c, class) ==
    CASE class = "\\s" -> IsSpace(c)
      [] class = "\\d" -> IsDigit(c)
      [] class = "[A-Z]" -> IsUpper(c)
      [] OTHER -> IsNotParen(c)

\* The index of the last character of the longest run of characters of the class
\* starting at i (i - 1 when the run is empty): a greedy X*.
SpanEnd(s, i, class) ==
    SetMax({j \in (i - 1)..Len(s) : \A k \in i..j : InClass(s[k], class)})

\* s[:n]
Take(s, n) == SubSeq(s, 1, IF n < Len(s) THEN n ELSE Len(s))

\* s[1:-1]
Inner(s) == SubSeq(s, 2, Len(s) - 1)

(***************************************************************************)
(* The Progress Document: src/lisa/state/comment.py                        *)
(***************************************************************************)
LeftArrow == "<-"
CurrentWord == <<"c", "u", "r", "r", "e", "n", "t">>
\* " <- current", the marker build_state_comment appends to the current step
CurrentMarker == <<" ", LeftArrow, " ">> \o CurrentWord

\* get_state_header(branch_name); the branch name is the one character "b"
StateHeader == <<"bot", " ", "*", "*", "l", "i", "s", "a", "*", "*", " ", ".", " ", "tick", "b", "tick">>

IterationsRow == <<"|", " ", "I", "t", "e", "r", "a", "t", "i", "o", "n", "s", " ", "|">>
CurrentStepRow == <<"|", " ", "C", "u", "r", "r", "e", "n", "t", " ", "s", "t", "e", "p", " ", "|">>
LastRunRow == <<"|", " ", "L", "a", "s", "t", " ", "r", "u", "n", " ", "|", " ", "t", "s", " ", "|">>
TableHead == << <<"|", " ", "F", "i", "e", "l", "d", " ", "|", " ", "V", "a", "l", "u", "e", " ", "|">>,
                <<"|", "-", "|", "-", "|">> >>
PlanHeading == <<"#", "#", " ", "P", "l", "a", "n">>
LogHeading == <<"*", "*", "L", "o", "g", ":", "*", "*">>
\* the document shows the 10 most recent log entries
LogLimit == 10

\* One checklist line of build_state_comment: a line of the body unless the
\* description holds line breaks.
StepLine(step, current_step) ==
    Cat(<< <<"-", " ", "[">>,
           IF step.done THEN <<"x">> ELSE <<" ">>,
           <<"]", " ", "*", "*">>,
           StrOfInt(step.id),
           <<"*", "*">>,
           IF step.ticket # <<>> THEN <<" ", "(">> \o step.ticket \o <<")">> ELSE <<>>,
           <<":", " ">>,
           step.description,
           IF step.id = current_step THEN CurrentMarker ELSE <<>> >>)

\* The lines of the per-step file operations (op, path; template and detail absent).
FileLines(step) ==
    [k \in 1..Len(step.files) |->
        <<" ", " ", "-", " ", "tick">> \o step.files[k].op \o <<"tick", ":", " ">> \o step.files[k].path]

RECURSIVE PlanLines(_, _)
PlanLines(steps, current_step) ==
    IF steps = <<>> THEN <<>>
    ELSE Split(StepLine(Head(steps), current_step), "\n") \o FileLines(Head(steps))
         \o PlanLines(Tail(steps), current_step)

CheckMark == "check"
CrossMark == "cross"
AssumptionsHeading == <<"#", "#", " ", "A", "s", "s", "u", "m", "p", "t", "i", "o", "n", "s">>

\* a decision record (models/core.py, class Assumption)
Assumption(id, selected, statement, rationale) ==
    [id |-> id, selected |-> selected, statement |-> statement, rationale |-> rationale]

\* a.id.startswith("P.")
IsPlanning(a) == StartsWith(a.id, <<"P", ".">>)
IsWork(a) == ~IsPlanning(a)

RECURSIVE format_group(_)
\* format_group of format_assumptions_markdown: the lines of one group
format_group(group) ==
    IF group = <<>> THEN <<>>
    ELSE LET a == Head(group)
         IN  << Cat(<< <<IF a.selected THEN CheckMark ELSE CrossMark, " ">>, a.id,
                       <<".", " ">>, a.statement >>) >>
             \o (IF a.rationale # <<>>
                 THEN << <<" ", " ", " ", "*">> \o a.rationale \o <<"*">> >>
                 ELSE <<>>)
             \o format_group(Tail(group))

\* format_assumptions_markdown(assumptions): the lines it adds to the body, the
\* blank line that ends the section included
format_assumptions_markdown(assumptions) ==
    IF assumptions = <<>> THEN <<>>
    ELSE Split(Join(<<AssumptionsHeading>>
                    \o format_group(SelectSeq(assumptions, IsPlanning))
                    \o format_group(SelectSeq(assumptions, IsWork)), <<"\n">>), "\n")
         \o << <<>> >>

\* current_step or "-"
CurrentStepCell(current_step) ==
    IF current_step = NoneInt \/ current_step = 0 THEN <<"-">> ELSE StrOfInt(current_step)

\* build_state_comment(branch, iteration, current_step, plan_steps, log_entries,
\* assumptions); exploration is absent
build_state_comment(iteration, current_step, plan_steps, log_entries, assumptions) ==
    << StateHeader, <<>> >>
    \o (IF plan_steps # <<>>
        THEN <<PlanHeading>> \o PlanLines(plan_steps, current_step) \o << <<>> >>
        ELSE <<>>)
    \o format_assumptions_markdown(assumptions)
    \o TableHead
    \o << IterationsRow \o <<" ">> \o StrOfInt(iteration) \o <<" ", "|">>,
          CurrentStepRow \o <<" ">> \o CurrentStepCell(current_step) \o <<" ", "|">>,
          LastRunRow,
          <<>>,
          LogHeading >>
    \o [k \in 1..Len(Take(log_entries, LogLimit)) |-> <<"-", " ">> \o log_entries[k]]

\* ^\s*<-\s*current$ : the optional tail of the checklist pattern
IsCurrentTail(t) ==
    LET a == SpanEnd(t, 1, "\\s") + 1
    IN  /\ a <= Len(t)
        /\ t[a] = LeftArrow
        /\ LET b == SpanEnd(t, a + 1, "\\s") + 1
           IN  SubSeq(t, b, Len(t)) = CurrentWord

NoStep == [ok |-> FALSE]

\* (.+?)(?:\s*<-\s*current)?$ on the rest r of the line: the lazy description
DescMatch_greedy(r) ==
    IF r = <<>> THEN NoMatch ELSE r
DescMatch(r) ==
    LET ks == {k \in 1..Len(r) : k = Len(r) \/ IsCurrentTail(SubSeq(r, k + 1, Len(r)))}
    IN  IF ks = {} THEN NoMatch ELSE SubSeq(r, 1, SetMin(ks))

\* ": " and the description, from position p of the stripped line
StepTail(line, p) ==
    IF MatchAt(line, p, <<":", " ">>)
    THEN DescMatch(SubSeq(line, p + 2, Len(line)))
    ELSE NoMatch

\* re.match(r"- \[([ x])\] \*\*(\d+)\*\*(?: \(([^)]+)\))?: (.+?)(?:\s*<-\s*current)?$", line)
\* on a stripped line: the step it yields, or NoStep
StepMatch(line) ==
    IF ~(/\ MatchAt(line, 1, <<"-", " ", "[">>)
         /\ Len(line) >= 4 /\ line[4] \in {" ", "x"}
         /\ MatchAt(line, 5, <<"]", " ", "*", "*">>))
    THEN NoStep
    ELSE
      LET d == SpanEnd(line, 9, "\\d")   \* \d+ is line[9..d]
      IN  IF d < 9 \/ ~MatchAt(line, d + 1, <<"*", "*">>) THEN NoStep
          ELSE
            LET p == d + 3
                q == SpanEnd(line, p + 2, "[^)]") + 1   \* the closing parenthesis
                withTicket == /\ MatchAt(line, p, <<" ", "(">>)
                              /\ q >= p + 3
                              /\ q <= Len(line)
                              /\ StepTail(line, q + 1) # NoMatch
                desc == IF withTicket THEN StepTail(line, q + 1) ELSE StepTail(line, p)
            IN  IF desc = NoMatch THEN NoStep
                ELSE [ok |-> TRUE,
                      done |-> line[4] = "x",
                      id |-> IntOfDigits(SubSeq(line, 9, d)),
                      ticket |-> IF withTicket THEN SubSeq(line, p + 2, q - 1) ELSE <<>>,
                      description |-> Strip(desc)]

RECURSIVE ParsePlan(_)
\* the checklist loop of parse_state_comment (a parsed step has no "files" key:
\* every reader uses step.get("files", []), the empty list here)
ParsePlan(body) ==
    IF body = <<>> THEN <<>>
    ELSE LET m == StepMatch(Strip(Head(body)))
         IN  (IF m.ok
              THEN << [id |-> m.id, ticket |-> m.ticket,
                       description |-> m.description, done |-> m.done,
                       files |-> <<>>] >>
              ELSE <<>>) \o ParsePlan(Tail(body))

\* re.search(r"\|\s*(\d+)\s*\|", t): the number of the first match, or NoneInt
SearchPipeNumber(t) ==
    LET hit(i) == /\ t[i] = "|"
                  /\ LET a == SpanEnd(t, i + 1, "\\s") + 1
                         b == SpanEnd(t, a, "\\d")
                         c == SpanEnd(t, b + 1, "\\s") + 1
                     IN  b >= a /\ c <= Len(t) /\ t[c] = "|"
        is == {i \in 1..Len(t) : hit(i)}
    IN  IF is = {} THEN NoneInt
        ELSE LET i == SetMin(is)
                 a == SpanEnd(t, i + 1, "\\s") + 1
             IN  IntOfDigits(SubSeq(t, a, SpanEnd(t, a, "\\d")))

\* the "| Iterations |" branch of parse_state_comment for one stripped line
IterationsCell(line) ==
    LET parts == Split(line, "|")
    IN  SearchPipeNumber(IF Len(parts) > 2 THEN parts[3] ELSE <<>>)

\* the "| Current step |" branch of parse_state_comment for one stripped line
CurrentStepCellValue(line) ==
    LET parts == Split(line, "|")
    IN  IF Len(parts) > 2
        THEN LET val == Strip(parts[3])
             IN  IF val # <<>> /\ val # <<"-">> THEN IntOfStr(val) ELSE NoneInt
        ELSE NoneInt

RECURSIVE ParseTable(_, _)
\* the table loop of parse_state_comment; acc is the result so far
ParseTable(body, acc) ==
    IF body = <<>> THEN acc
    ELSE LET line == Strip(Head(body))
             next == IF StartsWith(line, IterationsRow)
                     THEN (IF IterationsCell(line) # NoneInt
                           THEN [acc EXCEPT !.iterations = IterationsCell(line)]
                           ELSE acc)
                     ELSE IF StartsWith(line, CurrentStepRow)
                     THEN (IF CurrentStepCellValue(line) # NoneInt
                           THEN [acc EXCEPT !.current_step = CurrentStepCellValue(line)]
                           ELSE acc)
                     ELSE acc
         IN  ParseTable(Tail(body), next)

\* parse_state_comment(body)
parse_state_comment(body) ==
    ParseTable(body, [iterations |-> 0, current_step |-> NoneInt, plan_steps |-> ParsePlan(body)])

\* no decision record is open (current_assumption = None)
NoAssumption == Assumption(<<>>, FALSE, <<>>, <<>>)

\* The index of the last character of the id that the pattern
\* ([A-Z]\.\d+|\d+(?:\.\d+)?)\. (.+) finds in s from position 3, or NoneInt.
AssumptionIdEnd(s) ==
    LET rest(e) == MatchAt(s, e + 1, <<".", " ">>) /\ Len(s) >= e + 3
        letter == IF Len(s) >= 4 /\ IsUpper(s[3]) /\ s[4] = "." THEN SpanEnd(s, 5, "\\d") ELSE 4
        whole == SpanEnd(s, 3, "\\d")
        fraction == IF MatchAt(s, whole + 1, <<".">>) THEN SpanEnd(s, whole + 2, "\\d")
                    ELSE whole + 1
    IN  IF letter >= 5 /\ rest(letter) THEN letter
        ELSE IF whole >= 3 /\ fraction >= whole + 2 /\ rest(fraction) THEN fraction
        ELSE IF whole >= 3 /\ rest(whole) THEN whole
        ELSE NoneInt

\* re.match(r"([mark]) (id)\. (.+)", line.strip()): the record of the line, or
\* NoAssumption
AssumptionMatch(line) ==
    LET s == Strip(line)
    IN  IF Len(s) >= 2 /\ s[1] \in {CheckMark, CrossMark} /\ s[2] = " "
           /\ AssumptionIdEnd(s) # NoneInt
        THEN LET e == AssumptionIdEnd(s)
             IN  Assumption(SubSeq(s, 3, e), s[1] = CheckMark,
                            Strip(SubSeq(s, e + 3, Len(s))), <<>>)
        ELSE NoAssumption

\* line.strip().startswith("*") and line.strip().endswith("*")
IsRationaleLine(line) ==
    LET s == Strip(line) IN Len(s) >= 1 /\ s[1] = "*" /\ s[Len(s)] = "*"

RECURSIVE ParseAssumptions(_, _, _)
\* the loop of parse_assumptions_markdown over the lines still to read
ParseAssumptions(lines, assumptions, current_assumption) ==
    IF lines = <<>>
    THEN IF current_assumption # NoAssumption
         THEN Append(assumptions, current_assumption) ELSE assumptions
    ELSE LET line == Head(lines)
             m == AssumptionMatch(line)
         IN  IF m # NoAssumption
             THEN ParseAssumptions(Tail(lines),
                      IF current_assumption # NoAssumption
                      THEN Append(assumptions, current_assumption) ELSE assumptions, m)
             ELSE IF current_assumption # NoAssumption /\ IsRationaleLine(line)
             THEN ParseAssumptions(Tail(lines), assumptions,
                      [current_assumption EXCEPT !.rationale = Inner(Strip(line))])
             ELSE ParseAssumptions(Tail(lines), assumptions, current_assumption)

\* parse_assumptions_markdown(body)
parse_assumptions_markdown(body) == ParseAssumptions(body, <<>>, NoAssumption)

\* get_state_headers(branch_name): the header new documents get, then the legacy one
LegacyHeader == <<"bot", " ", "*", "*", "t", "r", "a", "l", "p", "h", "*", "*", " ", ".", " ", "tick", "b", "tick">>
get_state_headers == <<StateHeader, LegacyHeader>>

\* find_state_comment(issue_id, branch_name) on the comments list_comments
\* returned (an empty list when the call failed): the id of the first comment
\* whose body starts with one of the headers, the id of a comment being its
\* position in the list; 0 is None
find_state_comment(comments) ==
    LET found == {i \in 1..Len(comments) :
                     \E h \in 1..Len(get_state_headers) :
                         comments[i] # <<>> /\ StartsWith(comments[i][1], get_state_headers[h])}
    IN  IF found = {} THEN 0 ELSE SetMin(found)

\* fetch_state returned None
NoState ==
    [comment_id |-> 0, iterations |-> 0, current_step |-> NoneInt, plan_steps |-> <<>>,
     assumptions |-> <<>>]

\* fetch_state(issue_uuid, branch_name) on the comments list_comments returned
fetch_state(comments) ==
    LET id == find_state_comment(comments)
    IN  IF id = 0 THEN NoState
        ELSE LET state_read == parse_state_comment(comments[id])
             IN  [comment_id |-> id,
                  iterations |-> state_read.iterations,
                  current_step |-> state_read.current_step,
                  plan_steps |-> state_read.plan_steps,
                  assumptions |-> parse_assumptions_markdown(comments[id])]

(***************************************************************************)
(* The verification engine: src/lisa/phases/verify.py                      *)
(*                                                                         *)
(* A review text is [head, tail]: its first 100 characters and the rest.   *)
(***************************************************************************)
MAX_FIX_ATTEMPTS == 4
MAX_ISSUE_REPEATS == 3

\* text[:100]
Trunc100(text) == [head |-> text.head, tail |-> ""]

\* VerifyResult(passed, test_errors, review_issues, completion_issues, fix_attempts)
VerifyResult(passed, test_errors, review_issues, completion_issues, fix_attempts) ==
    [passed |-> passed, test_errors |-> test_errors, review_issues |-> review_issues,
     completion_issues |-> completion_issues, fix_attempts |-> fix_attempts]

\* the replies of the completion-check call: output that is not JSON, or an object
\* whose "complete" and "missing" keys are present or not
CompletionReplies ==
    {[json |-> FALSE, complete |-> "absent", missing |-> "absent"]}
    \cup [json : {TRUE}, complete : {"true", "false", "absent"},
          missing : {"absent", "null", "m1"}]

\* run_completion_check: the dict it returns ("absent" marks a key the dict lacks)
run_completion_check(reply) ==
    IF reply.json THEN [complete |-> reply.complete, missing |-> reply.missing]
    ELSE [complete |-> "true", missing |-> "null"]

\* completion.get("complete", True)
CompletionComplete_always(completion) == TRUE
CompletionComplete(completion) == completion.complete \in {"true", "absent"}

\* completion.get("missing", "unknown")
CompletionMissing(completion) ==
    IF completion.missing = "absent" THEN <<"unknown">>
    ELSE IF completion.missing = "null" THEN None
    ELSE <<completion.missing>>

\* what run_test_phase returns: None, or a TestFailure with its summary (the summary
\* is "" when the extraction reply is not JSON)
NoFailure == [failed |-> FALSE, summary |-> <<>>]
TestSummaries == { <<"e1">>, <<"e2">>, <<"e3">>, <<"e4">>, <<>> }
TestOutcomes == {NoFailure} \cup {[failed |-> TRUE, summary |-> e] : e \in TestSummaries}

\* the replies of the lightweight review call: output that is not JSON, or an object
\* with "approved" and an "issue" (None: null or absent)
ReviewTexts == {[head |-> "A", tail |-> ""], [head |-> "A", tail |-> "x"],
                [head |-> "B", tail |-> ""]}
ReviewReplies ==
    {[json |-> FALSE, approved |-> FALSE, issue |-> [head |-> "", tail |-> ""]]}
    \cup [json : {TRUE}, approved : BOOLEAN,
          issue : ReviewTexts \cup {[head |-> "", tail |-> ""]}]

\* run_review_phase(lightweight=True): approved and summary
run_review_phase(reply) ==
    IF ~reply.json
    THEN [approved |-> FALSE, summary |-> [head |-> "review output unparseable", tail |-> ""]]
    ELSE [approved |-> reply.approved,
          summary |-> IF reply.approved THEN [head |-> "approved", tail |-> ""]
                      ELSE IF reply.issue.head = ""
                      THEN [head |-> "unknown issue", tail |-> ""]
                      ELSE Trunc100(reply.issue)]

\* for fix_attempt in range(MAX_FIX_ATTEMPTS): if test_failure is None: break
\* the loop body runs again after k fixes
TestFixLoopContinues_off_by_one(test_failure, k) ==
    test_failure.failed /\ k <= MAX_FIX_ATTEMPTS
TestFixLoopContinues(test_failure, k) ==
    test_failure.failed /\ k < MAX_FIX_ATTEMPTS

\* for attempt in range(MAX_FIX_ATTEMPTS): the body of the review loop runs for
\* this value of attempt
ReviewLoopContinues_one_more(attempt) == attempt <= MAX_FIX_ATTEMPTS
ReviewLoopContinues(attempt) == attempt < MAX_FIX_ATTEMPTS

\* issue_counts[issue] >= MAX_ISSUE_REPEATS
IssueRepeated_strict(count) == count > MAX_ISSUE_REPEATS
IssueRepeated(count) == count >= MAX_ISSUE_REPEATS

\* issue_counts.get(issue, 0)
CountOf(issue_counts, issue) ==
    IF issue \in DOMAIN issue_counts THEN issue_counts[issue] ELSE 0

(***************************************************************************)
(* The work loop: src/lisa/phases/work.py, src/lisa/cli.py,                *)
(* src/lisa/git/commit.py, src/lisa/state/git.py                           *)
(*                                                                         *)
(* A text (an error summary, a review issue, a trailer value) is a         *)
(* sequence of tokens; None is the Python None.                            *)
(***************************************************************************)
\* the longest plan the planner returns
MaxSteps == 2
\* config.max_iterations
MaxIterations == 2
\* how many times main() is run on the ticket, each run finding what the
\* earlier ones left in the Progress Document, the commits and the working tree
MaxRuns == 2

\* WorkContext.max_verify_attempts
max_verify_attempts == 3
\* git_commit cuts a trailer value to 500 characters
TrailerLimit == 500

Files == {"f1"}
\* the files one work call changes
WorkTouches == SUBSET Files
\* the files the fix calls of one verify_step call change
VerifyTouches == SUBSET Files

NoneText == <<"n", "o", "n", "e">>

\* "; ".join(issues); a None among the issues makes join raise TypeError
JoinRaises(issues) == \E i \in 1..Len(issues) : issues[i] = None
JoinIssues(issues) == Join(issues, <<";", " ">>)

\* text.replace("\n", " ").replace("\r", "")[:500]
Sanitize(text) ==
    LET kept == SelectSeq(text, LAMBDA c : c # "\r")
    IN  Take([i \in 1..Len(kept) |-> IF kept[i] = "\n" THEN " " ELSE kept[i]], TrailerLimit)

\* the verification results handle_verify_step is given: one of each shape
\* verify_step returns (see ResultShape)
VerifyResults ==
    { VerifyResult(TRUE, <<>>, <<>>, <<>>, 0),
      VerifyResult(TRUE, <<>>, << <<"r1">> >>, <<>>, 1),
      VerifyResult(FALSE, <<>>, <<>>, << <<"m1">> >>, 0),
      VerifyResult(FALSE, <<>>, <<>>, <<None>>, 0),
      VerifyResult(FALSE, << <<"e1">> >>, <<>>, <<>>, 0),
      VerifyResult(FALSE, << <<"e1">> >>, << <<"r1">> >>, <<>>, 1),
      VerifyResult(FALSE, <<>>, << <<"r1">>, <<"r2">>, <<"r1">>, <<"r1">> >>, <<>>, 4) }

\* which of passed / test_errors / review_issues / completion_issues a result has
ResultShape(r) ==
    <<r.passed, r.test_errors # <<>>, r.review_issues # <<>>, r.completion_issues # <<>>>>

\* the trailers git_commit writes from iter_state (commit.py 125-139)
CommitTrailers(iter_state) ==
    [status |-> IF iter_state.test_errors = <<>> THEN "PASS" ELSE "FAIL",
     test_error |-> Sanitize(IF iter_state.test_errors # <<>>
                             THEN iter_state.test_errors[1] ELSE NoneText),
     review_issues |-> Sanitize(IF iter_state.review_issues # <<>>
                                THEN JoinIssues(iter_state.review_issues) ELSE NoneText)]

\* the value fetch_git_state reads from a trailer of the newest commit
TrailerValue(text) ==
    LET val == Strip(text)
    IN  IF val # NoneText THEN val ELSE None

\* fetch_git_state(branch_name): last_test_error and last_review_issues
fetch_git_state(commits) ==
    IF commits = <<>>
    THEN [last_test_error |-> None, last_review_issues |-> None]
    ELSE [last_test_error |-> TrailerValue(commits[1].trailers.test_error),
          last_review_issues |-> TrailerValue(commits[1].trailers.review_issues)]

\* TRAILER_PREFIXES (state/git.py 7); a prefix and a trailer name are one
\* character each in the text of a commit message
TRAILER_PREFIXES_lisa_only == <<"Lisa-">>
TRAILER_PREFIXES == <<"Lisa-", "Tralph-">>

\* one trailer line of a commit message: "<prefix><name>: <value>"
TrailerLine(prefix, name, value) == <<prefix, name, ":", " ">> \o value

\* git log --grep="(Lisa|Tralph)-Iteration:" --extended-regexp: the message holds
\* the text somewhere
GrepMatches(message) ==
    \E l \in 1..Len(message) : \E i \in 1..Len(message[l]) :
        /\ message[l][i] \in {"Lisa-", "Tralph-"}
        /\ MatchAt(message[l], i + 1, <<"Iteration", ":">>)

\* line.split(":", 1)[1].strip() of a line that holds a colon
AfterColon(line) ==
    LET colons == {i \in 1..Len(line) : line[i] = ":"}
    IN  Strip(SubSeq(line, SetMin(colons) + 1, Len(line)))

\* [f.strip() for f in files_str.split(",") if f.strip()]
FilesOf(files_str) ==
    LET parts == Split(files_str, ",")
        kept == SelectSeq(parts, LAMBDA f : Strip(f) # <<>>)
    IN  [k \in 1..Len(kept) |-> Strip(kept[k])]

\* state = {} of one commit, and what fetch_git_state holds while it reads
NoCommitState == [iteration |-> NoneInt, files |-> None, errors |-> None, fixes |-> None]
NoGitState ==
    [iterations |-> <<>>, last_test_error |-> None, last_review_issues |-> None]

\* the Test-Error and Review-Issues branches take the value of the first commit
\* read only, and no value of "none"
TakesValue_any_commit(is_first_commit, val) == val # NoneText
TakesValue(is_first_commit, val) == is_first_commit /\ val # NoneText

\* the if/elif chain of fetch_git_state for one line and one prefix (state/git.py
\* 56-75); acc holds state, last_test_error and last_review_issues
ReadTrailer(line, prefix, is_first_commit, acc) ==
    LET key(name) == StartsWith(line, <<prefix, name, ":">>)
        val == AfterColon(line)
    IN  IF key("Iteration")
        THEN IF IntOfStr(val) # NoneInt THEN [acc EXCEPT !.state.iteration = IntOfStr(val)]
             ELSE acc
        ELSE IF key("Files") THEN [acc EXCEPT !.state.files = FilesOf(val)]
        ELSE IF key("Errors") THEN [acc EXCEPT !.state.errors = val]
        ELSE IF key("Fixes") THEN [acc EXCEPT !.state.fixes = val]
        ELSE IF key("Test-Error")
        THEN IF TakesValue(is_first_commit, val) THEN [acc EXCEPT !.last_test_error = val]
             ELSE acc
        ELSE IF key("Review-Issues")
        THEN IF TakesValue(is_first_commit, val) THEN [acc EXCEPT !.last_review_issues = val]
             ELSE acc
        ELSE acc

RECURSIVE ReadLine(_, _, _, _)
\* for prefix in TRAILER_PREFIXES, for one line
ReadLine(line, prefixes, is_first_commit, acc) ==
    IF prefixes = <<>> THEN acc
    ELSE ReadLine(line, Tail(prefixes), is_first_commit,
                  ReadTrailer(line, Head(prefixes), is_first_commit, acc))

RECURSIVE ReadCommit(_, _, _)
\* for line in commit_body.split("\n")
ReadCommit(lines, is_first_commit, acc) ==
    IF lines = <<>> THEN acc
    ELSE ReadCommit(Tail(lines), is_first_commit,
                    ReadLine(Head(lines), TRAILER_PREFIXES, is_first_commit, acc))

\* not commit_body.strip()
IsBlankBody(message) == \A l \in 1..Len(message) : Strip(message[l]) = <<>>

RECURSIVE ReadCommits(_, _, _)
\* for commit_body in result.stdout.split("\x00") (state/git.py 49-78)
ReadCommits(bodies, is_first_commit, result) ==
    IF bodies = <<>> THEN result
    ELSE IF IsBlankBody(Head(bodies)) THEN ReadCommits(Tail(bodies), is_first_commit, result)
    ELSE LET read == ReadCommit(Head(bodies), is_first_commit,
                                [state |-> NoCommitState,
                                 last_test_error |-> result.last_test_error,
                                 last_review_issues |-> result.last_review_issues])
         IN  IF read.state # NoCommitState
             THEN ReadCommits(Tail(bodies), FALSE,
                      [iterations |-> Append(result.iterations, read.state),
                       last_test_error |-> read.last_test_error,
                       last_review_issues |-> read.last_review_issues])
             ELSE ReadCommits(Tail(bodies), FALSE,
                      [iterations |-> result.iterations,
                       last_test_error |-> read.last_test_error,
                       last_review_issues |-> read.last_review_issues])

\* the history fetch_git_state returns keeps 3 commits
HistoryLimit == 3

\* fetch_git_state(branch_name) on the commit messages of the branch, newest first
\* (state/git.py 10-84)
fetch_git_state_of(log) ==
    LET bodies == SelectSeq(log, GrepMatches)
        read == ReadCommits(bodies, TRUE, NoGitState)
    IN  IF \A b \in 1..Len(bodies) : IsBlankBody(bodies[b]) THEN NoGitState
        ELSE [read EXCEPT !.iterations = Take(@, HistoryLimit)]

\* [s for s in plan_steps if not s.get("done")]
Incomplete(plan_steps) == SelectSeq(plan_steps, LAMBDA st : ~st.done)

\* the plan with the step whose id is current_step marked done
MarkDone_all(plan_steps, current_step) ==
    [i \in 1..Len(plan_steps) |-> [plan_steps[i] EXCEPT !.done = TRUE]]
MarkDone(plan_steps, current_step) ==
    LET hits == {i \in 1..Len(plan_steps) : plan_steps[i].id = current_step}
    IN  IF hits = {} THEN plan_steps
        ELSE [plan_steps EXCEPT ![SetMin(hits)].done = TRUE]

\* the descriptions the planner gives a step: a plain one, and one that starts
\* with a line break
PlanDescriptions == { <<"a">>, <<"\n", "a">> }

\* the plans run_planning_phase returns: steps 1..n, none done, any description
\* for the first step and the plain one for the others; the empty plan when the
\* planner's output has no steps or is not JSON
Plans ==
    {<<>>} \cup
    UNION { { pl \in [1..n -> [id : 1..n, ticket : {<<>>}, description : PlanDescriptions,
                               done : {FALSE}, files : {<<>>}]] :
                /\ \A i \in 1..n : pl[i].id = i
                /\ \A i \in 2..n : pl[i].description = <<"a">> } : n \in 1..MaxSteps }

\* one line of the log of the Progress Document
LogEntry == <<"l">>

(***************************************************************************)
(* The state.                                                              *)
(***************************************************************************)
VARIABLES
    \* -- one round trip of the Progress Document
    doc_pc,     \* "input", "built", "parsed"
    doc_in,     \* the arguments of build_state_comment
    doc_body,   \* the body it returned
    doc_out,    \* what parse_state_comment made of the body
    \* -- one call of verify_step
    v_pc,                \* the call verify_step makes next, or "returned" / "raised"
    v_has_step,          \* step_id and step_desc are both truthy
    v_test_failure,      \* test_failure
    v_fix_attempt,       \* fixes made by the test-fix loop before the reviews
    v_attempt,           \* attempt, the review loop's variable
    v_test_fix_attempt,  \* fixes made by the test-fix loop after a review fix
    v_review_issues,     \* review_issues
    v_issue_counts,      \* issue_counts
    v_result,            \* the VerifyResult returned
    v_obs,               \* what an observer of the call has counted
    \* -- the runs of main() and process_ticket_work on one ticket
    pc,        \* "not started", "running", or how the run ended: "returned True",
               \* "returned False", "exited" (sys.exit), "raised", "skipped"
    state,     \* the WorkState of process_ticket_work
    ctx,       \* the WorkContext (its assumption lists and its log are not modelled)
    comment,   \* the Progress Document on the ticket: whether it exists, and the
               \* arguments build_state_comment made its body from
    commits,   \* the newest commit of the branch that carries trailers (the older
               \* ones are read only for the history shown in the work prompt)
    dirty,     \* get_changed_files(): the files with uncommitted changes
    runs,      \* how many times main() has been started
    obs,       \* what an observer of the run has recorded
    \* -- the Progress Document comments of one issue and branch over the runs
    s_pc,        \* "start" (no process), "work" (between two iterations), "ended"
    s_comments,  \* the bodies of the comments created, in the order list_comments
                 \* returns them; the id of a comment is its position
    s_ctx,       \* the fields of the WorkContext that reach the Progress Document
    s_runs,      \* how many times main() has been started
    s_obs,       \* what an observer has recorded: the body read at start, the body
                 \* of the first save of the run
    \* -- one reading of a branch and of a Progress Document under both naming schemes
    g_pc,            \* "input", "read", "read legacy", "state", "done"
    g_in,            \* the commits of the branch, newest first
    g_body,          \* the Progress Document of the issue
    g_git,           \* what fetch_git_state returned for the branch
    g_git_legacy,    \* ... for the branch with Tralph- trailer keys
    g_state,         \* what fetch_state returned for the document
    g_state_legacy,  \* ... for the document with the tralph header
    \* -- one call of git_commit
    c_pc,        \* "call", "commit", "fix", "retry", "failed", "committed", "returned"
    c_call,      \* who calls, and the arguments that decide what a failing commit does
    c_attempt,   \* attempt of the hook fix loop
    c_events,    \* the commits, backend fix calls and pushes issued, in order
    c_result,    \* what git_commit returned
    \* -- one call of a function of the program
    f_pc,        \* "input", "done"
    f_in,        \* the arguments of the call
    f_out,       \* what the call returned and left in its arguments
    \* -- one process running main() on the units of the command line
    m_pc,        \* where main() is: "start", "created", "atexit registered",
                 \* "SIGINT registered", "setup", "units", "exiting" (sys.exit
                 \* was called, an exception escaped or main returned),
                 \* "removing" (inside remove_worktree), "ended"
    m_config,    \* config.worktree and the number of ticket ids
    m_tree,      \* the session worktree: "none", "exists", "removed"
    m_atexit,    \* cleanup_session_worktree is registered with atexit
    m_handlers,  \* the signals session_signal_handler is installed for
    m_cleaned,   \* session_worktree_cleaned
    m_removing,  \* who called the remove_worktree in progress and what follows it
    m_removes,   \* how many times remove_worktree was called
    m_outcomes,  \* how the units processed so far ended, in order
    m_exit,      \* the exit status of the process, 0 - 1 while none is set
    m_signals,   \* the signals delivered so far
    \* -- one call of run_preflight
    p_pc,        \* "start", "submit", "collect", "returned"
    p_cmds,      \* config["tests"]: for each command its "preflight" key
    p_futures,   \* for each command: whether it was submitted, is running or has
                 \* finished, how it ended and how many times it was run
    p_seen,      \* the futures as_completed has yielded
    p_failures,  \* failures
    p_return     \* what run_preflight returned

docVars == <<doc_pc, doc_in, doc_body, doc_out>>
verifyVars == <<v_pc, v_has_step, v_test_failure, v_fix_attempt, v_attempt,
                v_test_fix_attempt, v_review_issues, v_issue_counts, v_result, v_obs>>
workVars == <<pc, state, ctx, comment, commits, dirty, runs, obs>>
storeVars == <<s_pc, s_comments, s_ctx, s_runs, s_obs>>
gitVars == <<g_pc, g_in, g_body, g_git, g_git_legacy, g_state, g_state_legacy>>
commitVars == <<c_pc, c_call, c_attempt, c_events, c_result>>
callVars == <<f_pc, f_in, f_out>>
sessionVars == <<m_pc, m_config, m_tree, m_atexit, m_handlers, m_cleaned, m_removing,
                 m_removes, m_outcomes, m_exit, m_signals>>
preflightVars == <<p_pc, p_cmds, p_futures, p_seen, p_failures, p_return>>
moreVars == <<callVars, sessionVars, preflightVars>>
auxVars == <<storeVars, gitVars, commitVars, moreVars>>
vars == <<docVars, verifyVars, workVars, auxVars>>

\* the variables of a part of the model that a specification does not run
DocIdle ==
    /\ doc_pc = "idle"
    /\ doc_in = [iteration |-> 0, current_step |-> NoneInt, plan_steps |-> <<>>,
                 log_entries |-> <<>>, assumptions |-> <<>>]
    /\ doc_body = <<>>
    /\ doc_out = NoState

NoResult == VerifyResult(FALSE, <<>>, <<>>, <<>>, 0)

VerifyFresh ==
    /\ v_test_failure = NoFailure
    /\ v_fix_attempt = 0
    /\ v_attempt = 0
    /\ v_test_fix_attempt = 0
    /\ v_review_issues = <<>>
    /\ v_issue_counts = <<>>
    /\ v_result = NoResult
    /\ v_obs = [completion_checks |-> 0, tests |-> 0, test_fixes |-> 0, reviews |-> 0,
                fixes |-> 0, tests_failed |-> 0, unapproved |-> 0, heads |-> {},
                summaries |-> {}, incomplete |-> FALSE, since_test |-> {},
                last_test |-> "none", last_review |-> "none"]

VerifyIdle ==
    /\ v_pc = "idle"
    /\ v_has_step = FALSE
    /\ VerifyFresh

\* format_conclusion_markdown(conclusion): its heading line
ReviewGuide == <<"#", "#", " ", "R", "e", "v", "i", "e", "w", " ", "G", "u", "i", "d", "e">>

\* the lines of a body without the blank lines at its end (rstrip)
RStripLines(body) ==
    LET kept == {i \in 1..Len(body) : body[i] # <<>>}
    IN  IF kept = {} THEN <<>> ELSE SubSeq(body, 1, SetMax(kept))

\* the body save_conclusion_to_linear writes: the review guide replaces the one the
\* body holds, or is appended
WithConclusion(body) ==
    LET guides == {i \in 1..Len(body) : body[i] = ReviewGuide}
        kept == IF guides = {} THEN body ELSE SubSeq(body, 1, SetMin(guides) - 1)
    IN  RStripLines(kept) \o << <<>>, ReviewGuide >>

\* the Progress Document of the ticket: none, or the arguments its body was built
\* from and whether handle_all_done has added the review guide to it
NoComment ==
    [exists |-> FALSE, iteration |-> 0, current_step |-> NoneInt, plan_steps |-> <<>>,
     guide |-> FALSE]

\* the body of the Progress Document as save_state wrote it
CommentBody(c) ==
    LET body == build_state_comment(c.iteration, c.current_step, c.plan_steps, <<LogEntry>>, <<>>)
    IN  IF c.guide THEN WithConclusion(body) ELSE body

\* the iter_state process_ticket_work sets at the start of an iteration (work.py
\* 741-746); files_before is absent until handle_execute_work sets it
FreshIterState ==
    [files_before |-> {}, test_errors |-> <<>>, review_issues |-> <<>>]

\* what the observer holds at the start of a run
FreshObs ==
    [loopbacks |-> [i \in 1..MaxSteps |-> 0], iter_execs |-> 0, iter_changed |-> {},
     iter_commit |-> "none", exhausted |-> FALSE, retry_step |-> NoneInt,
     executed |-> {}, first_selected |-> NoneInt, resumed |-> FALSE,
     resumed_done |-> {}, resumed_next |-> NoneInt, verified |-> {}, settled |-> {},
     work_json |-> TRUE, iter_verifies |-> 0, step_commits |-> 0]

\* the WorkContext main() builds (cli.py 842-867) with the iteration header of
\* process_ticket_work applied (work.py 730-746)
NewContext(plan_steps, current_step, state_iteration, git_state, has_comment, skip_verify) ==
    [plan_steps |-> plan_steps, current_step |-> current_step,
     state_iteration |-> state_iteration, loop_iter |-> 1,
     work_result |-> [step_done |-> NoneInt],
     last_test_error |-> git_state.last_test_error,
     last_review_issues |-> git_state.last_review_issues,
     last_completion_issues |-> None,
     iter_state |-> FreshIterState,
     tests_passed |-> TRUE, step_done |-> FALSE, review_status |-> "skipped",
     verify_attempts |-> 0,
     comment_id |-> has_comment, skip_verify |-> skip_verify,
     max_iterations |-> MaxIterations]

IdleContext ==
    NewContext(<<>>, NoneInt, 0, [last_test_error |-> None, last_review_issues |-> None],
               FALSE, FALSE)

WorkFresh ==
    /\ state = "SELECT_STEP"
    /\ comment = NoComment
    /\ commits = <<>>
    /\ dirty = {}
    /\ runs = 0
    /\ obs = FreshObs

WorkIdle ==
    /\ pc = "idle"
    /\ ctx = IdleContext
    /\ WorkFresh

\* the WorkContext fields of the store part before main() has run
NoStoreContext ==
    [comment_id |-> 0, plan_steps |-> <<>>, all_assumptions |-> <<>>, log_entries |-> <<>>,
     state_iteration |-> 0, loop_iter |-> 0]

NoStoreObs == [resumed |-> FALSE, read_body |-> <<>>, first_save |-> <<>>]

StoreIdle ==
    /\ s_pc = "idle"
    /\ s_comments = <<>>
    /\ s_ctx = NoStoreContext
    /\ s_runs = 0
    /\ s_obs = NoStoreObs

GitIdle ==
    /\ g_pc = "idle"
    /\ g_in = <<>>
    /\ g_body = <<>>
    /\ g_git = NoGitState
    /\ g_git_legacy = NoGitState
    /\ g_state = NoState
    /\ g_state_legacy = NoState

\* model=None: no model was passed to git_commit
NoModel == ""
NoCall ==
    [caller |-> "", model |-> NoModel, allow_no_verify |-> TRUE, max_hook_fix_attempts |-> 0,
     push |-> FALSE]

CommitIdle ==
    /\ c_pc = "idle"
    /\ c_call = NoCall
    /\ c_attempt = 0
    /\ c_events = <<>>
    /\ c_result = FALSE

CallIdle ==
    /\ f_pc = "idle"
    /\ f_in = <<>>
    /\ f_out = <<>>

NoRemoval == [by |-> "", status |-> NoneInt]

SessionIdle ==
    /\ m_pc = "idle"
    /\ m_config = [worktree |-> FALSE, num_tickets |-> 0]
    /\ m_tree = "none"
    /\ m_atexit = FALSE
    /\ m_handlers = {}
    /\ m_cleaned = FALSE
    /\ m_removing = NoRemoval
    /\ m_removes = 0
    /\ m_outcomes = <<>>
    /\ m_exit = NoneInt
    /\ m_signals = <<>>

PreflightIdle ==
    /\ p_pc = "idle"
    /\ p_cmds = <<>>
    /\ p_futures = <<>>
    /\ p_seen = {}
    /\ p_failures = <<>>
    /\ p_return = FALSE

MoreIdle == CallIdle /\ SessionIdle /\ PreflightIdle

AuxIdle == StoreIdle /\ GitIdle /\ CommitIdle /\ MoreIdle

(***************************************************************************)
(* SpecDoc: build_state_comment followed by parse_state_comment, on every  *)
(* plan of at most MaxDocSteps steps.                                      *)
(***************************************************************************)
\* single-line step descriptions: plain, with an inner blank, with a trailing
\* blank, empty, and one whose text ends in the current marker
DocDescriptions ==
    { <<"a">>, <<"a", " ", "b">>, <<"a", " ">>, <<>>, <<"a">> \o CurrentMarker,
      <<"a", "\n", "b">> }
\* owning ticket ids: none, or "E-7"
DocTickets == { <<>>, <<"E", "-", "7">> }
\* iteration counts written to the document
DocIterations == {0, 12}
\* the id of the i-th step: 9, 10, 11, ... (ids of one and of two digits)
DocStepId(i) == i + 8

\* ids of decision records: of planning, and of the work of iteration 1
DocAssumptionIds == { <<"P", ".", "1">>, <<"1", ".", "2">> }
\* single-line statements and rationales (an empty rationale is "no rationale")
DocStatements == { <<"s">>, <<"s", " ", "t">> }
DocRationales == { <<>>, <<"r">> }
MaxDocAssumptions == 2
DocAssumptionRecords ==
    { Assumption(i, sel, st, ra) : i \in DocAssumptionIds, sel \in BOOLEAN,
                                   st \in DocStatements, ra \in DocRationales }
DocAssumptions ==
    UNION { [1..n -> DocAssumptionRecords] : n \in 0..MaxDocAssumptions }

\* the plans that are written together with decision records: none, and one
\* plain step
WithAssumptions(steps) ==
    \/ steps = <<>>
    \/ Len(steps) = 1 /\ steps[1].description = <<"a">> /\ steps[1].ticket = <<>>

DocSteps(n) ==
    { s \in [1..n -> [id : {DocStepId(i) : i \in 1..n}, ticket : DocTickets,
                      description : DocDescriptions, done : BOOLEAN, files : {<<>>}]] :
        \A i \in 1..n : s[i].id = DocStepId(i) }

DocInit ==
    /\ doc_pc = "input"
    /\ \E n \in 0..MaxDocSteps :
         \E steps \in DocSteps(n) :
           \E cur \in {NoneInt} \cup {steps[i].id : i \in 1..n}, it \in DocIterations :
             \E asm \in (IF WithAssumptions(steps) THEN DocAssumptions ELSE {<<>>}) :
               doc_in = [iteration |-> it, current_step |-> cur, plan_steps |-> steps,
                         log_entries |-> << <<"l">> >>, assumptions |-> asm]
    /\ doc_body = <<>>
    /\ doc_out = NoState
    /\ VerifyIdle
    /\ WorkIdle
    /\ AuxIdle

\* build_state_comment(branch_name, iteration, current_step, plan_steps, log_entries)
DocBuild ==
    /\ doc_pc = "input"
    /\ doc_body' = build_state_comment(doc_in.iteration, doc_in.current_step,
                                       doc_in.plan_steps, doc_in.log_entries,
                                       doc_in.assumptions)
    /\ doc_pc' = "built"
    /\ UNCHANGED <<doc_in, doc_out, verifyVars, workVars, auxVars>>

\* fetch_state(issue_uuid, branch_name) on an issue whose one comment is the body
DocParse ==
    /\ doc_pc = "built"
    /\ doc_out' = fetch_state(<<doc_body>>)
    /\ doc_pc' = "parsed"
    /\ UNCHANGED <<doc_in, doc_body, verifyVars, workVars, auxVars>>

DocNext == DocBuild \/ DocParse

SpecDoc == DocInit /\ [][DocNext]_vars

\* the parsed steps are the steps given, in order, with the same id, done flag,
\* ticket id and description
SameSteps(given, parsed) ==
    /\ Len(parsed) = Len(given)
    /\ \A i \in 1..Len(given) :
         /\ parsed[i].id = given[i].id
         /\ parsed[i].done = given[i].done
         /\ parsed[i].ticket = given[i].ticket
         /\ parsed[i].description = given[i].description

PlainDescription(d) ==
    /\ d # <<>>
    /\ ~IsSpace(d[1])
    /\ ~IsSpace(d[Len(d)])
    /\ \A k \in 2..Len(d) : ~IsCurrentTail(SubSeq(d, k, Len(d)))
    /\ \A k \in 1..Len(d) : d[k] # "\n"

PlainPlan(steps) == \A i \in 1..Len(steps) : PlainDescription(steps[i].description)

C10_IterationsRoundTrip ==
    doc_pc = "parsed" => doc_out.iterations = doc_in.iteration

\* the records in the order format_assumptions_markdown writes them: planning
\* records first, then work records
WrittenOrder(assumptions) ==
    SelectSeq(assumptions, IsPlanning) \o SelectSeq(assumptions, IsWork)

\* C11: for every list L of decision records with single-line statements and
\* rationales, parse_assumptions_markdown(build_state_comment(..., assumptions=L))
\* returns, for every record of L (planning records first, then work records), a
\* record with the same id, selected flag, statement and rationale.
C11_AssumptionsRoundTrip ==
    doc_pc = "parsed" => doc_out.assumptions = WrittenOrder(doc_in.assumptions)

(***************************************************************************)
(* SpecVerify: one call of verify_step, one action per call it makes       *)
(* (completion check, test run, test fix, review, review fix), each with   *)
(* the control flow that follows it up to the next call or the return.     *)
(***************************************************************************)
VerifyInit ==
    /\ v_pc = "entry"
    /\ v_has_step \in BOOLEAN
    /\ VerifyFresh
    /\ DocIdle
    /\ WorkIdle
    /\ AuxIdle

Return(result) ==
    /\ v_pc' = "returned"
    /\ v_result' = result

Counted(field) == [v_obs EXCEPT ![field] = @ + 1, !.since_test = @ \cup {field}]

CountedTest(f) ==
    [v_obs EXCEPT !.tests = @ + 1, !.tests_failed = IF f.failed THEN @ + 1 ELSE @,
                  !.since_test = {},
                  !.last_test = IF f.failed THEN "failed" ELSE "passed",
                  !.summaries = IF f.failed /\ v_obs.tests_failed = v_obs.tests
                                THEN @ \cup {f.summary} ELSE {}]

\* if step_id and step_desc: (verify.py 667)
VerifyEnter ==
    /\ v_pc = "entry"
    /\ v_pc' = IF v_has_step THEN "completion_check" ELSE "test"
    /\ UNCHANGED <<v_has_step, v_test_failure, v_fix_attempt, v_attempt, v_test_fix_attempt,
                   v_review_issues, v_issue_counts, v_result, v_obs, docVars, workVars, auxVars>>

\* run_completion_check and the early return (verify.py 668-682)
VerifyCompletionCheck ==
    /\ v_pc = "completion_check"
    /\ \E reply \in CompletionReplies :
         LET completion == run_completion_check(reply)
         IN  /\ IF ~CompletionComplete(completion)
                THEN Return(VerifyResult(FALSE, <<>>, <<>>,
                                         <<CompletionMissing(completion)>>, 0))
                ELSE v_pc' = "test" /\ UNCHANGED v_result
             /\ v_obs' = [Counted("completion_checks") EXCEPT
                             !.incomplete = reply.json /\ reply.complete = "false"]
    /\ UNCHANGED <<v_has_step, v_test_failure, v_fix_attempt, v_attempt, v_test_fix_attempt,
                   v_review_issues, v_issue_counts, docVars, workVars, auxVars>>

\* after a test run of the first test-fix loop, k fixes made (verify.py 689-716)
AfterTest(f, k) ==
    IF TestFixLoopContinues(f, k) THEN v_pc' = "test_fix" /\ UNCHANGED v_result
    ELSE IF f.failed THEN Return(VerifyResult(FALSE, <<f.summary>>, <<>>, <<>>, 0))
    ELSE v_pc' = "review" /\ UNCHANGED v_result

\* the first run_test_phase (verify.py 688)
VerifyTest ==
    /\ v_pc = "test"
    /\ \E f \in TestOutcomes :
         /\ v_test_failure' = f
         /\ AfterTest(f, 0)
         /\ v_obs' = CountedTest(f)
    /\ v_fix_attempt' = 0
    /\ v_attempt' = 0
    /\ UNCHANGED <<v_has_step, v_test_fix_attempt, v_review_issues, v_issue_counts, docVars, workVars, auxVars>>

\* run_test_fix_phase in the first loop (verify.py 694)
VerifyTestFix ==
    /\ v_pc = "test_fix"
    /\ v_pc' = "retest"
    /\ v_obs' = Counted("test_fixes")
    /\ UNCHANGED <<v_has_step, v_test_failure, v_fix_attempt, v_attempt, v_test_fix_attempt,
                   v_review_issues, v_issue_counts, v_result, docVars, workVars, auxVars>>

\* the run_test_phase after a test fix (verify.py 704)
VerifyRetest ==
    /\ v_pc = "retest"
    /\ \E f \in TestOutcomes :
         /\ v_test_failure' = f
         /\ AfterTest(f, v_fix_attempt + 1)
         /\ v_obs' = CountedTest(f)
    /\ v_fix_attempt' = v_fix_attempt + 1
    /\ UNCHANGED <<v_has_step, v_attempt, v_test_fix_attempt, v_review_issues,
                   v_issue_counts, docVars, workVars, auxVars>>

\* run_review_phase and what follows it up to run_fix_phase (verify.py 723-748)
\* if review_result["approved"]: (verify.py 734)
ReviewApproved_always(review_result) == TRUE
ReviewApproved(review_result) == review_result.approved

VerifyReview ==
    /\ v_pc = "review"
    /\ \E reply \in ReviewReplies :
         LET review_result == run_review_phase(reply)
             issue == Trunc100(review_result.summary)
             n == CountOf(v_issue_counts, issue) + 1
         IN  /\ v_obs' = [v_obs EXCEPT !.reviews = @ + 1,
                                       !.unapproved = IF review_result.approved THEN @ ELSE @ + 1,
                                       !.heads = @ \cup {review_result.summary.head},
                                       !.since_test = @ \cup {"reviews"},
                                       !.last_review = IF review_result.approved
                                                       THEN "approved" ELSE "needs fixes"]
             /\ IF ReviewApproved(review_result)
                THEN /\ Return(VerifyResult(TRUE, <<>>, v_review_issues, <<>>, v_attempt))
                     /\ UNCHANGED <<v_review_issues, v_issue_counts>>
                ELSE /\ v_issue_counts' = [i \in DOMAIN v_issue_counts \cup {issue} |->
                                             IF i = issue THEN n ELSE v_issue_counts[i]]
                     /\ IF IssueRepeated(n)
                        THEN /\ Return(VerifyResult(FALSE, <<>>, Append(v_review_issues, issue),
                                                    <<>>, v_attempt + 1))
                             /\ UNCHANGED v_review_issues
                        ELSE /\ v_review_issues' = Append(v_review_issues, issue)
                             /\ v_pc' = "fix"
                             /\ UNCHANGED v_result
    /\ UNCHANGED <<v_has_step, v_test_failure, v_fix_attempt, v_attempt, v_test_fix_attempt,
                   docVars, workVars, auxVars>>

\* run_fix_phase (verify.py 751)
VerifyFix ==
    /\ v_pc = "fix"
    /\ v_pc' = "post_review_test"
    /\ v_obs' = Counted("fixes")
    /\ UNCHANGED <<v_has_step, v_test_failure, v_fix_attempt, v_attempt, v_test_fix_attempt,
                   v_review_issues, v_issue_counts, v_result, docVars, workVars, auxVars>>

\* after a test run that follows a review fix, k test fixes made (verify.py 764-797)
AfterPostReviewTest(f, k) ==
    IF TestFixLoopContinues(f, k)
    THEN v_pc' = "post_review_test_fix" /\ UNCHANGED <<v_result, v_attempt>>
    ELSE IF f.failed
    THEN /\ Return(VerifyResult(FALSE, <<f.summary>>, v_review_issues, <<>>, v_attempt + 1))
         /\ UNCHANGED v_attempt
    ELSE IF ReviewLoopContinues(v_attempt + 1)
    THEN v_pc' = "review" /\ v_attempt' = v_attempt + 1 /\ UNCHANGED v_result
    ELSE /\ Return(VerifyResult(FALSE, <<>>, v_review_issues, <<>>, MAX_FIX_ATTEMPTS))
         /\ UNCHANGED v_attempt

\* the run_test_phase after a review fix (verify.py 761)
VerifyPostReviewTest ==
    /\ v_pc = "post_review_test"
    /\ \E f \in TestOutcomes :
         /\ v_test_failure' = f
         /\ AfterPostReviewTest(f, 0)
         /\ v_obs' = CountedTest(f)
    /\ v_test_fix_attempt' = 0
    /\ UNCHANGED <<v_has_step, v_fix_attempt, v_review_issues, v_issue_counts, docVars, workVars, auxVars>>

\* run_test_fix_phase after a review fix (verify.py 768)
VerifyPostReviewTestFix ==
    /\ v_pc = "post_review_test_fix"
    /\ v_pc' = "post_review_retest"
    /\ v_obs' = Counted("test_fixes")
    /\ UNCHANGED <<v_has_step, v_test_failure, v_fix_attempt, v_attempt, v_test_fix_attempt,
                   v_review_issues, v_issue_counts, v_result, docVars, workVars, auxVars>>

\* the run_test_phase after that test fix (verify.py 778)
VerifyPostReviewRetest ==
    /\ v_pc = "post_review_retest"
    /\ \E f \in TestOutcomes :
         /\ v_test_failure' = f
         /\ AfterPostReviewTest(f, v_test_fix_attempt + 1)
         /\ v_obs' = CountedTest(f)
    /\ v_test_fix_attempt' = v_test_fix_attempt + 1
    /\ UNCHANGED <<v_has_step, v_fix_attempt, v_review_issues, v_issue_counts, docVars, workVars, auxVars>>

\* run_test_phase raises: the extraction reply is JSON without one of the keys
\* "extracted_output", "summary", "failed_tests" (verify.py 279-287), and
\* verify_step lets the KeyError through
VerifyTestRaises ==
    /\ v_pc \in {"test", "retest", "post_review_test", "post_review_retest"}
    /\ v_pc' = "raised"
    /\ v_obs' = Counted("tests")
    /\ UNCHANGED <<v_has_step, v_test_failure, v_fix_attempt, v_attempt, v_test_fix_attempt,
                   v_review_issues, v_issue_counts, v_result, docVars, workVars, auxVars>>

VerifyNext ==
    \/ VerifyEnter
    \/ VerifyCompletionCheck
    \/ VerifyTest
    \/ VerifyTestFix
    \/ VerifyRetest
    \/ VerifyReview
    \/ VerifyFix
    \/ VerifyPostReviewTest
    \/ VerifyPostReviewTestFix
    \/ VerifyPostReviewRetest
    \/ VerifyTestRaises

\* the call has not failed its completion check, no test run has failed or raised,
\* and every review so far was unapproved with one and the same first 100 characters
SameIssueEveryReview ==
    /\ v_pc # "raised"
    /\ v_result.completion_issues = <<>>
    /\ v_obs.tests_failed = 0
    /\ v_obs.unapproved = v_obs.reviews
    /\ Cardinality(v_obs.heads) <= 1

\* C2: when the completion check and all test runs pass and every lightweight review
\* is unapproved with the same first 100 characters, verify_step never makes a 4th
\* review call, and it returns at the 3rd (MAX_ISSUE_REPEATS) with passed = false
\* and a non-empty review_issues list.
C2_SameIssueStopsAtThirdReview ==
    SameIssueEveryReview =>
        /\ v_obs.reviews <= MAX_ISSUE_REPEATS
        /\ v_pc = "returned" =>
              /\ v_obs.reviews = MAX_ISSUE_REPEATS
              /\ ~v_result.passed
              /\ v_result.review_issues # <<>>

\* the call returned after three unapproved reviews whose summaries differ only after
\* the 100th character, with a completion check and passing test runs before them
C2_Witness ==
    /\ v_pc = "returned"
    /\ SameIssueEveryReview
    /\ v_obs.reviews = 3
    /\ v_obs.completion_checks = 1
    /\ v_obs.tests = 3
    /\ v_obs.heads = {"A"}
    /\ Len(v_result.review_issues) = 3

\* at least one test run was made and every test run so far failed
EveryTestFailed ==
    /\ v_obs.tests >= 1
    /\ v_obs.tests_failed = v_obs.tests

C3_WitnessSameSummary ==
    /\ v_pc = "returned"
    /\ EveryTestFailed
    /\ v_obs.tests = 5
    /\ v_obs.summaries = {<<"e1">>}

\* every result verify_step returns has the shape of one of VerifyResults, and
\* each of those shapes is returned
ShapesReturned ==
    v_pc = "returned" => ResultShape(v_result) \in {ResultShape(r) : r \in VerifyResults}

SpecVerify == VerifyInit /\ [][VerifyNext]_vars

C33_IncompleteReturnsEarly ==
    v_obs.incomplete =>
        /\ v_pc = "returned"
        /\ ~v_result.passed
        /\ v_result.completion_issues # <<>>
        /\ v_obs.completion_checks = 1
        /\ v_obs.tests = 0
        /\ v_obs.reviews = 0
        /\ v_obs.fixes = 0
        /\ v_obs.test_fixes = 0

\* the completion check said "complete": false and named what is missing
C33_Witness ==
    /\ v_obs.incomplete
    /\ v_pc = "returned"
    /\ v_result.completion_issues = << <<"m1">> >>

\* C36: verify_step returns passed=true only if its most recent test run (full or
\* filtered to the tests that failed before) reported no failure, its most recent
\* review call approved, and no fix call was made after that test run: the review
\* is the only call that follows it.
C36_PassedOnlyAfterCleanTestAndReview ==
    (v_pc = "returned" /\ v_result.passed) =>
        /\ v_obs.tests >= 1
        /\ v_obs.last_test = "passed"
        /\ ~v_test_failure.failed
        /\ v_obs.last_review = "approved"
        /\ v_obs.since_test = {"reviews"}
        /\ v_result.test_errors = <<>>
        /\ v_result.completion_issues = <<>>

\* passed after a review fix and a test fix: the filtered re-run of the failing
\* tests is the most recent test run
C36_Witness ==
    /\ v_pc = "returned"
    /\ v_result.passed
    /\ v_obs.fixes = 1
    /\ v_obs.test_fixes = 1
    /\ v_obs.tests = 3
    /\ v_obs.reviews = 2
    /\ v_obs.last_test = "passed"

(***************************************************************************)
(* Spec: main() and process_ticket_work on one ticket, run up to MaxRuns   *)
(* times; one action per handler of the state machine.                     *)
(***************************************************************************)
Init ==
    /\ pc = "not started"
    /\ \E skip_verify \in BOOLEAN :
         ctx = [IdleContext EXCEPT !.skip_verify = skip_verify]
    /\ WorkFresh
    /\ DocIdle
    /\ VerifyIdle
    /\ AuxIdle

\* save_state(...): the comment it writes
SavedComment(iteration, current_step, plan_steps) ==
    [exists |-> TRUE, iteration |-> iteration, current_step |-> current_step,
     plan_steps |-> plan_steps, guide |-> FALSE]

\* the ids of the steps a plan marks done, and the id of its first step not done
DoneIds(plan_steps) == {plan_steps[i].id : i \in {j \in 1..Len(plan_steps) : plan_steps[j].done}}
NextId(plan_steps) ==
    LET open == {j \in 1..Len(plan_steps) : ~plan_steps[j].done}
    IN  IF open = {} THEN NoneInt ELSE plan_steps[SetMin(open)].id

\* main() for the ticket, up to the first iteration header of process_ticket_work
\* (cli.py 722-869): fetch_state and fetch_git_state, the planning phase and the
\* first save when no plan was read, the "All plan steps complete" exit
main ==
    /\ pc = "not started"
    /\ runs < MaxRuns
    /\ runs' = runs + 1
    /\ \E read \in {parse_state_comment(CommentBody(comment))},
          git_state \in {fetch_git_state(commits)} :
         \E read_plan \in {IF comment.exists THEN read.plan_steps ELSE <<>>} :
           \E planned \in (IF read_plan = <<>> THEN Plans ELSE {<<>>}),
              saved \in (IF read_plan = <<>> THEN BOOLEAN ELSE {FALSE}) :
             LET plan_steps == IF read_plan = <<>> THEN planned ELSE read_plan
                 first_save == read_plan = <<>> /\ planned # <<>>
                 current_step == IF first_save THEN plan_steps[1].id
                                 ELSE IF comment.exists THEN read.current_step
                                 ELSE NoneInt
             IN  /\ comment' = IF first_save /\ saved
                               THEN SavedComment(0, current_step, plan_steps)
                               ELSE comment
                 /\ ctx' = [NewContext(plan_steps, current_step,
                                       IF comment.exists THEN read.iterations ELSE 0,
                                       git_state,
                                       IF first_save THEN saved ELSE comment.exists,
                                       ctx.skip_verify)
                             EXCEPT !.max_iterations = ctx.max_iterations]
                 /\ pc' = IF plan_steps # <<>> /\ Incomplete(plan_steps) = <<>>
                          THEN "skipped" ELSE "running"
    /\ state' = "SELECT_STEP"
    /\ obs' = [FreshObs EXCEPT !.resumed = comment.exists,
                               !.resumed_done = DoneIds(comment.plan_steps),
                               !.resumed_next = NextId(comment.plan_steps)]
    /\ UNCHANGED <<commits, dirty, docVars, verifyVars, auxVars>>

Running(st) == pc = "running" /\ state = st

\* handle_select_step (work.py 138-167)
handle_select_step ==
    /\ Running("SELECT_STEP")
    /\ LET incomplete == Incomplete(ctx.plan_steps)
       IN  IF incomplete = <<>>
           THEN /\ state' = "ALL_DONE"
                /\ UNCHANGED <<ctx, obs>>
           ELSE /\ ctx' = [ctx EXCEPT !.current_step = incomplete[1].id]
                /\ state' = "EXECUTE_WORK"
                /\ obs' = [obs EXCEPT !.first_selected =
                               IF @ = NoneInt THEN incomplete[1].id ELSE @]
    /\ UNCHANGED <<pc, comment, commits, dirty, runs, docVars, verifyVars, auxVars>>

\* except json.JSONDecodeError: ... sys.exit(1) around json.loads(output)
\* (work.py 303-311): the process exits when the output of the work call is not JSON
WorkOutputExit_never(json) == FALSE
WorkOutputExit(json) == ~json

\* handle_execute_work (work.py 170-313): files_before, the work call and what it
\* changes, json.loads of its output, sys.exit(1) when that fails
handle_execute_work ==
    /\ Running("EXECUTE_WORK")
    /\ \E touched \in WorkTouches, json \in BOOLEAN :
         \E step_done \in (IF json THEN {NoneInt, ctx.current_step}
                           ELSE {NoneInt}) :
           /\ dirty' = dirty \cup touched
           /\ ctx' = [ctx EXCEPT !.iter_state.files_before = dirty,
                                 !.work_result = IF json THEN [step_done |-> step_done] ELSE @]
           /\ pc' = IF WorkOutputExit(json) THEN "exited" ELSE pc
           /\ state' = IF WorkOutputExit(json) THEN state ELSE "HANDLE_ASSUMPTIONS"
           /\ obs' = [obs EXCEPT !.iter_execs = @ + 1,
                                 !.iter_changed = @ \cup touched,
                                 !.executed = @ \cup {ctx.current_step},
                                 !.work_json = json]
    /\ UNCHANGED <<comment, commits, runs, docVars, verifyVars, auxVars>>

\* handle_assumptions (work.py 316-351), the assumption lists left out: sys.exit(1)
\* when the user quits the editor of the interactive mode
handle_assumptions ==
    /\ Running("HANDLE_ASSUMPTIONS")
    /\ \E quit \in BOOLEAN :
         /\ pc' = IF quit THEN "exited" ELSE pc
         /\ state' = IF quit THEN state ELSE "CHECK_COMPLETION"
    /\ UNCHANGED <<ctx, obs, comment, commits, dirty, runs, docVars, verifyVars, auxVars>>

\* completed_step is neither None nor another step than ctx.current_step
\* (work.py 389-394)
StepReported_any(completed_step, current_step) == completed_step # NoneInt
StepReported(completed_step, current_step) ==
    completed_step # NoneInt /\ completed_step = current_step

\* handle_check_completion (work.py 366-403)
handle_check_completion ==
    /\ Running("CHECK_COMPLETION")
    /\ LET completed_step == ctx.work_result.step_done
           done == StepReported(completed_step, ctx.current_step)
       IN  /\ ctx' = [ctx EXCEPT !.step_done = done, !.tests_passed = TRUE,
                                 !.review_status = "skipped"]
           /\ state' = IF done THEN "VERIFY_STEP" ELSE "COMMIT_CHANGES"
    /\ UNCHANGED <<pc, obs, comment, commits, dirty, runs, docVars, verifyVars, auxVars>>

\* the last_* fields handle_verify_step sets from a failed verification
\* (work.py 458-473 and 479-493): exactly one of them, or none
FailureContext(c, verify) ==
    IF verify.completion_issues # <<>>
    THEN [c EXCEPT !.last_completion_issues = JoinIssues(verify.completion_issues),
                   !.last_test_error = None, !.last_review_issues = None]
    ELSE IF verify.test_errors # <<>>
    THEN [c EXCEPT !.last_test_error = verify.test_errors[1],
                   !.last_review_issues = None, !.last_completion_issues = None]
    ELSE [c EXCEPT !.last_test_error = None,
                   !.last_review_issues = IF verify.review_issues # <<>>
                                          THEN JoinIssues(verify.review_issues) ELSE None,
                   !.last_completion_issues = None]

\* review_status after the last failed attempt (work.py 479-491)
FailureStatus(verify) ==
    IF verify.completion_issues # <<>> THEN "skipped (incomplete)"
    ELSE IF verify.test_errors # <<>> THEN "skipped (tests failed)"
    ELSE "NEEDS_FIXES"

\* the step is marked done by handle_verify_step exactly when the verification passed
MarksDone_always(verify) == TRUE
MarksDone(verify) == verify.passed

\* for ctx.loop_iter in range(1, ctx.config.max_iterations + 1): another iteration
\* follows iteration loop_iter
BudgetLeft_extra(loop_iter) == loop_iter <= ctx.max_iterations
BudgetLeft(loop_iter) == loop_iter < ctx.max_iterations

\* verify_attempts < max_verify_attempts: the failed verification is retried
RetryAllowed_inclusive(verify_attempts) == verify_attempts <= max_verify_attempts
RetryAllowed(verify_attempts) == verify_attempts < max_verify_attempts

\* what the skip_verify branch and the verify.passed branch of handle_verify_step
\* share: the failure context is cleared, verify_attempts is reset and the active
\* step is marked done (work.py 410-418, 444-452)
PassedContext(c) ==
    [c EXCEPT !.last_test_error = None, !.last_review_issues = None,
              !.last_completion_issues = None, !.verify_attempts = 0,
              !.plan_steps = MarkDone(@, c.current_step)]

\* handle_verify_step (work.py 406-495), config.skip_verify set
VerifySkipped ==
    /\ ctx.skip_verify
    /\ ctx' = PassedContext([ctx EXCEPT !.tests_passed = TRUE])
    /\ state' = "COMMIT_CHANGES"
    /\ obs' = [obs EXCEPT !.verified = @ \cup {ctx.current_step}]
    /\ UNCHANGED <<pc, dirty>>

\* handle_verify_step when verify_step raises (a KeyError of run_test_phase)
VerifyRaised ==
    /\ ~ctx.skip_verify
    /\ pc' = "raised"
    /\ obs' = [obs EXCEPT !.iter_verifies = @ + 1]
    /\ UNCHANGED <<ctx, state, dirty>>

\* handle_verify_step when verify_step returns
VerifyReturned ==
    /\ ~ctx.skip_verify
    /\ \E verify \in VerifyResults :
       \E touched \in (IF verify.completion_issues # <<>> THEN {{}} ELSE VerifyTouches) :
         LET seen == [ctx EXCEPT !.tests_passed = verify.passed,
                                 !.iter_state.test_errors = verify.test_errors,
                                 !.iter_state.review_issues = verify.review_issues]
             attempts == ctx.verify_attempts + 1
             failed == [seen EXCEPT !.verify_attempts = attempts]
             raises == verify.completion_issues # <<>> /\ JoinRaises(verify.completion_issues)
             looked == [obs EXCEPT !.iter_changed = @ \cup touched,
                                   !.iter_verifies = @ + 1,
                                   !.verified = IF verify.passed THEN @ \cup {ctx.current_step}
                                                ELSE @]
         IN  /\ dirty' = dirty \cup touched
             /\ IF MarksDone(verify)
                THEN /\ ctx' = PassedContext([seen EXCEPT !.review_status = "APPROVED"])
                     /\ state' = "COMMIT_CHANGES"
                     /\ obs' = looked
                     /\ UNCHANGED pc
                ELSE IF RetryAllowed(attempts)
                THEN /\ ctx' = IF raises THEN failed ELSE FailureContext(failed, verify)
                     /\ pc' = IF raises THEN "raised" ELSE pc
                     /\ state' = IF raises THEN state ELSE "EXECUTE_WORK"
                     /\ obs' = IF raises THEN looked
                               ELSE [looked EXCEPT !.loopbacks[ctx.current_step] = @ + 1]
                ELSE /\ ctx' = IF raises
                               THEN [failed EXCEPT !.review_status = FailureStatus(verify)]
                               ELSE [FailureContext(failed, verify) EXCEPT
                                        !.review_status = FailureStatus(verify)]
                     /\ pc' = IF raises THEN "raised" ELSE pc
                     /\ state' = IF raises THEN state ELSE "COMMIT_CHANGES"
                     /\ obs' = [looked EXCEPT !.exhausted = TRUE]

handle_verify_step ==
    /\ Running("VERIFY_STEP")
    /\ (VerifySkipped \/ VerifyRaised \/ VerifyReturned)
    /\ UNCHANGED <<comment, commits, runs, docVars, verifyVars, auxVars>>

\* fail_marker = "[FAIL] " if not ctx.tests_passed else "" (work.py 512)
FailMarker_always(tests_passed) == TRUE
FailMarker(tests_passed) == ~tests_passed

\* handle_commit_changes (work.py 498-538); the formatters are taken to change
\* no file that is not changed already
handle_commit_changes ==
    /\ Running("COMMIT_CHANGES")
    /\ LET files_this_step == dirty \ ctx.iter_state.files_before
           commit == [title_fail |-> FailMarker(ctx.tests_passed),
                      trailers |-> CommitTrailers(ctx.iter_state)]
           reached == [obs EXCEPT !.settled = @ \cup obs.verified]
       IN  /\ ctx' = [ctx EXCEPT !.verify_attempts = 0]
           /\ IF files_this_step # {}
              THEN \E committed \in BOOLEAN :
                     /\ commits' = IF committed THEN <<commit>> ELSE commits
                     /\ dirty' = IF committed THEN dirty \ files_this_step ELSE dirty
                     /\ obs' = [reached EXCEPT !.iter_commit =
                                    IF ~committed THEN "failed"
                                    ELSE IF commit.title_fail THEN "fail" ELSE "pass",
                                    !.step_commits = IF committed THEN @ + 1 ELSE @]
              ELSE /\ obs' = reached
                   /\ UNCHANGED <<commits, dirty>>
    /\ state' = "SAVE_STATE"
    /\ UNCHANGED <<pc, comment, runs, docVars, verifyVars, auxVars>>

\* handle_save_state (work.py 541-572) and the rest of the iteration in
\* process_ticket_work (work.py 763-775): the next iteration's header, or
\* handle_max_iterations and return False
handle_save_state ==
    /\ Running("SAVE_STATE")
    /\ \E saved \in BOOLEAN :
         LET remaining_steps == Incomplete(ctx.plan_steps)
             next_step == IF remaining_steps # <<>> THEN remaining_steps[1].id ELSE NoneInt
             more == BudgetLeft(ctx.loop_iter)
         IN  /\ comment' = IF saved
                           THEN SavedComment(ctx.state_iteration + ctx.loop_iter, next_step,
                                             ctx.plan_steps)
                           ELSE comment
             /\ ctx' = [ctx EXCEPT !.comment_id = IF saved THEN TRUE ELSE @,
                                   !.loop_iter = IF more THEN @ + 1 ELSE @,
                                   !.iter_state = IF more THEN FreshIterState ELSE @]
             /\ pc' = IF more THEN pc ELSE "returned False"
             /\ state' = "SELECT_STEP"
             /\ obs' = IF more
                       THEN [obs EXCEPT !.iter_execs = 0, !.iter_changed = {},
                                        !.iter_verifies = 0,
                                        !.iter_commit = "none", !.exhausted = FALSE,
                                        !.retry_step = IF obs.exhausted THEN ctx.current_step
                                                       ELSE NoneInt]
                       ELSE obs
    /\ UNCHANGED <<commits, dirty, runs, docVars, verifyVars, auxVars>>

\* handle_all_done (work.py 575-692) and return True: the commit of the files
\* still changed carries no trailers; save_conclusion_to_linear adds the review
\* guide to the Progress Document it finds
handle_all_done ==
    /\ Running("ALL_DONE")
    /\ \E committed \in BOOLEAN :
         dirty' = IF committed THEN {} ELSE dirty
    /\ \E guide_saved \in BOOLEAN :
         comment' = IF comment.exists /\ guide_saved THEN [comment EXCEPT !.guide = TRUE]
                    ELSE comment
    /\ pc' = "returned True"
    /\ UNCHANGED <<state, ctx, obs, commits, runs, docVars, verifyVars, auxVars>>

Step ==
    \/ handle_select_step
    \/ handle_execute_work
    \/ handle_assumptions
    \/ handle_check_completion
    \/ handle_verify_step
    \/ handle_commit_changes
    \/ handle_save_state
    \/ handle_all_done

\* the process of a run is over: what it held in memory is gone, and the comment,
\* the commits and the working tree are what the next run of main() finds
Ended == pc \in {"returned True", "returned False", "exited", "raised", "skipped"}

ProcessEnds ==
    /\ Ended
    /\ runs < MaxRuns
    /\ pc' = "not started"
    /\ state' = "SELECT_STEP"
    /\ ctx' = [IdleContext EXCEPT !.skip_verify = ctx.skip_verify,
                                  !.max_iterations = ctx.max_iterations]
    /\ obs' = FreshObs
    /\ UNCHANGED <<comment, commits, dirty, runs, docVars, verifyVars, auxVars>>

\* the process is killed while process_ticket_work runs, between two handlers
Killed ==
    /\ pc = "running"
    /\ runs < MaxRuns
    /\ pc' = "not started"
    /\ state' = "SELECT_STEP"
    /\ ctx' = [IdleContext EXCEPT !.skip_verify = ctx.skip_verify,
                                  !.max_iterations = ctx.max_iterations]
    /\ obs' = FreshObs
    /\ UNCHANGED <<comment, commits, dirty, runs, docVars, verifyVars, auxVars>>

Next == main \/ Step \/ ProcessEnds \/ Killed

Spec == Init /\ [][Next]_vars

(***************************************************************************)
(* The claims about the work loop.                                         *)
(***************************************************************************)
\* how many of last_test_error, last_review_issues, last_completion_issues are set
FailureContexts(c) ==
    Cardinality({k \in {"test", "review", "completion"} :
                    \/ k = "test" /\ c.last_test_error # None
                    \/ k = "review" /\ c.last_review_issues # None
                    \/ k = "completion" /\ c.last_completion_issues # None})

\* C1 as stated: each time process_ticket_work reaches SAVE_STATE, at most one of
\* ctx.last_test_error, ctx.last_review_issues, ctx.last_completion_issues is
\* non-null (handle_save_state assigns none of them, so they are at the end of the
\* iteration what they are here), whatever Run Context main() built.
C1_AtMostOneFailureContext ==
    Running("SAVE_STATE") => FailureContexts(ctx) <= 1

\* the loop-backs from VERIFY_STEP to EXECUTE_WORK in the current iteration
IterLoopbacks == IF obs.iter_execs = 0 THEN 0 ELSE obs.iter_execs - 1

C5_DoneOnlyByPassedVerification ==
    [][(pc = "running" /\ pc' # "not started") =>
         /\ Len(ctx'.plan_steps) = Len(ctx.plan_steps)
         /\ \A i \in 1..Len(ctx.plan_steps) :
              /\ ctx'.plan_steps[i].id = ctx.plan_steps[i].id
              /\ ctx.plan_steps[i].done => ctx'.plan_steps[i].done
              /\ (~ctx.plan_steps[i].done /\ ctx'.plan_steps[i].done) =>
                   /\ state = "VERIFY_STEP"
                   /\ ctx.plan_steps[i].id = ctx.current_step
                   /\ ctx'.tests_passed
                   /\ ctx.skip_verify \/ ctx'.review_status = "APPROVED"]_vars

\* the active step was marked done by a verification that passed after one that
\* had failed and been retried
C5_Witness ==
    /\ Running("COMMIT_CHANGES")
    /\ ~ctx.skip_verify
    /\ ctx.review_status = "APPROVED"
    /\ obs.loopbacks[ctx.current_step] = 1
    /\ \E i \in 1..Len(ctx.plan_steps) :
         ctx.plan_steps[i].id = ctx.current_step /\ ctx.plan_steps[i].done

\* C6 as stated: when verification of the active step fails on the last allowed
\* attempt of an iteration, the run is not aborted, control goes to COMMIT_CHANGES,
\* a commit titled "[FAIL] ..." is made if the iteration changed files (unless git
\* refuses the commit), the step stays done = false, and the next iteration
\* selects the same step again.
C6_ExhaustedVerificationCommitsFail ==
    /\ obs.exhausted => pc # "raised"
    /\ (obs.exhausted /\ Running("COMMIT_CHANGES")) =>
         \A i \in 1..Len(ctx.plan_steps) :
            ctx.plan_steps[i].id = ctx.current_step => ~ctx.plan_steps[i].done
    /\ (obs.exhausted /\ Running("SAVE_STATE") /\ obs.iter_changed # {}
        /\ obs.iter_commit # "failed") => obs.iter_commit = "fail"
    /\ (obs.retry_step # NoneInt /\ pc = "running" /\ state # "SELECT_STEP") =>
         ctx.current_step = obs.retry_step

\* the position of a handler within one attempt of an iteration; EXECUTE_WORK is
\* counted before the attempt it starts
StatePos ==
    CASE state = "SELECT_STEP" -> 0
      [] state = "HANDLE_ASSUMPTIONS" -> 1
      [] state = "CHECK_COMPLETION" -> 2
      [] state = "VERIFY_STEP" -> 3
      [] state = "EXECUTE_WORK" -> 4
      [] state = "COMMIT_CHANGES" -> 5
      [] state = "ALL_DONE" -> 5
      [] OTHER -> 6

\* the variant of process_ticket_work: iteration, attempt, position
Rank == ctx.loop_iter * (7 * (max_verify_attempts + 1)) + obs.iter_execs * 7 + StatePos

\* the bounds of C7: at most max_iterations iterations, at most
\* max_verify_attempts entries of EXECUTE_WORK in each, no handler without a
\* successor, True returned only from ALL_DONE and False only after the last
\* iteration
C7_Bounds ==
    /\ pc # "not started" => ctx.loop_iter \in 1..MaxIterations
    /\ obs.iter_execs <= max_verify_attempts
    /\ pc = "running" => ENABLED Step
    /\ pc = "returned True" => state = "ALL_DONE"
    /\ pc = "returned False" => state = "SELECT_STEP" /\ ctx.loop_iter = MaxIterations

\* every step of process_ticket_work moves the variant up or ends the run
C7_Progress ==
    [][pc = "running" => (pc' # "running" \/ Rank' > Rank)]_vars

FailCommit ==
    [title_fail |-> TRUE,
     trailers |-> CommitTrailers([FreshIterState EXCEPT !.test_errors = << <<"e1">> >>,
                                                        !.review_issues = << <<"r1">> >>])]

\* what an earlier run can leave on the ticket: no Progress Document, or the one
\* handle_save_state saves once step 1 is done
LeftComments ==
    {NoComment}
    \cup {SavedComment(1, NextId(MarkDone(p, 1)), MarkDone(p, 1)) : p \in Plans \ {<<>>}}

\* one run of main and process_ticket_work, started on what an earlier run left
InitFair ==
    /\ pc = "not started"
    /\ \E skip_verify \in BOOLEAN :
         ctx = [IdleContext EXCEPT !.skip_verify = skip_verify]
    /\ state = "SELECT_STEP"
    /\ comment \in LeftComments
    /\ commits \in {<<>>, <<FailCommit>>}
    /\ dirty = {}
    /\ runs = MaxRuns - 1
    /\ obs = FreshObs
    /\ DocIdle
    /\ VerifyIdle
    /\ AuxIdle

NextFair == main \/ Step

\* the interpreter runs the handler the loop has reached: a handler that can run
\* does run
SpecFair == InitFair /\ [][NextFair]_vars /\ WF_vars(Step)

\* the run was started from a Progress Document that marks steps 1..N done and at
\* least one following step, and no other, not done
ResumedAfterPrefix ==
    /\ obs.resumed
    /\ obs.resumed_next # NoneInt
    /\ obs.resumed_done = 1..(obs.resumed_next - 1)

\* what C8 promises of such a run: process_ticket_work is started, the first step
\* it selects is step N+1, and EXECUTE_WORK runs for none of steps 1..N
SelectsNextStep ==
    /\ pc # "skipped"
    /\ obs.first_selected \in {NoneInt, obs.resumed_next}
    /\ (pc = "running" /\ state # "SELECT_STEP") => obs.first_selected = obs.resumed_next
    /\ obs.executed \cap obs.resumed_done = {}

\* C8 as stated: if a Progress Document built by build_state_comment marks steps
\* 1..N done and the following steps not done, the run resumed from it selects
\* step N+1 first and never executes any of steps 1..N.
C8_ResumeSelectsNext == ResumedAfterPrefix => SelectsNextStep

\* a run resumed after step 1 that has selected step 2 and run EXECUTE_WORK for it
C8_Witness ==
    /\ ResumedAfterPrefix
    /\ obs.resumed_done = {1}
    /\ pc = "running"
    /\ obs.first_selected = 2
    /\ obs.executed = {2}

\* SAVE_STATE is entered from COMMIT_CHANGES only, COMMIT_CHANGES from a
\* verification that will not be retried (or from CHECK_COMPLETION, when the step
\* is not claimed done), and the step of SAVE_STATE ends the iteration
SaveClosesIteration ==
    /\ (state # "SAVE_STATE" /\ state' = "SAVE_STATE") => state = "COMMIT_CHANGES"
    /\ (state # "COMMIT_CHANGES" /\ state' = "COMMIT_CHANGES") =>
            state \in {"VERIFY_STEP", "CHECK_COMPLETION"}
    /\ state = "SAVE_STATE" =>
            (ctx'.loop_iter = ctx.loop_iter + 1 \/ pc' = "returned False")

\* every done flag of the Progress Document was in the document when the run
\* started, or belongs to a step whose verification passed (or was switched off)
\* in this run and for which COMMIT_CHANGES has run since
DoneFlagsSettled ==
    pc # "not started" =>
        DoneIds(comment.plan_steps) \subseteq (obs.resumed_done \cup obs.settled)

\* C13 as stated: in every iteration the Progress Document is written exactly
\* once, by SAVE_STATE, after the verification outcome is final and COMMIT_CHANGES
\* has run; nothing is written during a VERIFY_STEP -> EXECUTE_WORK retry; every
\* done flag of a persisted document belongs to a step whose verification passed
\* and whose commit was already attempted.
C13_WrittenOnlyBySaveState ==
    /\ []DoneFlagsSettled
    /\ [][(pc = "running" /\ pc' # "not started") =>
            /\ SaveClosesIteration
            /\ comment' # comment => state = "SAVE_STATE"]_vars

\* C13, amended: while process_ticket_work runs, the plan, the done flags and the
\* table of the Progress Document are written by SAVE_STATE only, at most once per
\* iteration, after COMMIT_CHANGES has run; the pass that reaches ALL_DONE runs
\* neither COMMIT_CHANGES nor SAVE_STATE and writes the document once more, to add
\* the review guide, leaving everything else as it was; nothing is written during
\* a retry; every done flag of the document was there at start or belongs to a
\* step whose verification passed (or was switched off) and for which
\* COMMIT_CHANGES has run.
C13_StateWrittenOnlyBySaveState ==
    /\ []DoneFlagsSettled
    /\ [][(pc = "running" /\ pc' # "not started") =>
            /\ SaveClosesIteration
            /\ comment' # comment =>
                   \/ state = "SAVE_STATE"
                   \/ state = "ALL_DONE" /\ comment' = [comment EXCEPT !.guide = TRUE]]_vars

\* the document holds the done flag of a step that this run verified after a retry
\* and committed
C13_Witness ==
    /\ pc = "running"
    /\ state = "SELECT_STEP"
    /\ comment.exists
    /\ \E i \in DoneIds(comment.plan_steps) \cap obs.settled :
         i \in 1..MaxSteps /\ obs.loopbacks[i] > 0 /\ i \notin obs.resumed_done

\* C14: if the process is killed at any point of iteration k (the saves of
\* iterations 1..k-1 having succeeded) and then restarted, the plan loaded on
\* restart has done=true for every step that was done at the end of iteration k-1:
\* a save that succeeds writes the done flags the plan has at the end of its
\* iteration, and a run that starts on a document loads a plan in which every
\* step the document marks done is present and done.
C14_RestartKeepsDone ==
    /\ [](obs.resumed => obs.resumed_done \subseteq DoneIds(ctx.plan_steps))
    /\ [][(pc = "running" /\ state = "SAVE_STATE" /\ comment' # comment) =>
             DoneIds(comment'.plan_steps) = DoneIds(ctx.plan_steps)]_vars

\* C16: after any iteration that produced a commit, fetch_git_state on the branch
\* returns last_test_error and last_review_issues equal to the Run Context's
\* last_test_error and last_review_issues at the end of that iteration (the
\* values here are single lines far shorter than 500 characters).
C16_GitStateMatchesContext ==
    (pc = "running" /\ state = "SAVE_STATE" /\ obs.iter_commit \in {"pass", "fail"}) =>
        /\ fetch_git_state(commits).last_test_error = ctx.last_test_error
        /\ fetch_git_state(commits).last_review_issues = ctx.last_review_issues

\* C21: when the output of the main work call is not valid JSON,
\* handle_execute_work ends the process with exit status 1: in that step no commit
\* is made, no step's done flag changes and the Progress Document is not written,
\* the iteration has made no commit, and the only thing that follows is the end
\* of the process, with the document and the commits as they were.
C21_InvalidJsonExits ==
    [][/\ ~obs'.work_json =>
            /\ pc' = "exited"
            /\ state' = "EXECUTE_WORK"
            /\ comment' = comment
            /\ commits' = commits
            /\ ctx'.plan_steps = ctx.plan_steps
            /\ obs'.iter_commit = "none"
       /\ ~obs.work_json =>
            /\ pc' = "not started"
            /\ comment' = comment
            /\ commits' = commits]_vars

\* the work call of the second attempt on step 1 changed a file and answered with
\* something that is not JSON, in a run that has a Progress Document and a plan
C21_Witness ==
    /\ ~obs.work_json
    /\ pc = "exited"
    /\ obs.iter_execs = 2
    /\ dirty # {}
    /\ comment.exists
    /\ Len(ctx.plan_steps) = 2

\* C23: nothing escapes as an exception from the VERIFY_STEP transition: whatever
\* the test command and the test-extraction, review and completion-check calls
\* answer, verify_step returns a VerifyResult and handle_verify_step returns a
\* next state.
C23_VerifyStepNeverRaises ==
    [][Running("VERIFY_STEP") => (pc' # "raised" /\ (pc' = "running" => state' # "VERIFY_STEP"))]_vars

\* a step of handle_verify_step in which the verification failed: it is the only
\* handler that raises verify_attempts
VerificationFailed == Running("VERIFY_STEP") /\ ctx'.verify_attempts = ctx.verify_attempts + 1

\* C30: verify_attempts is 0 whenever SELECT_STEP is entered and never exceeds
\* max_verify_attempts; within one iteration verify_step is called at most
\* max_verify_attempts times; the 1st and 2nd failed verification lead to
\* EXECUTE_WORK, the 3rd failed verification leads to COMMIT_CHANGES.
C30_VerifyAttemptsBudget ==
    [][/\ (pc' = "running" /\ state' = "SELECT_STEP") => ctx'.verify_attempts = 0
       /\ ctx'.verify_attempts <= max_verify_attempts
       /\ obs'.iter_verifies <= max_verify_attempts
       /\ VerificationFailed =>
            /\ pc' = "running"
            /\ state' = IF ctx'.verify_attempts < max_verify_attempts
                        THEN "EXECUTE_WORK" ELSE "COMMIT_CHANGES"]_vars

\* the done steps of the plan form a prefix of it
DonePrefix(plan_steps) ==
    \A i, j \in 1..Len(plan_steps) : (i < j /\ plan_steps[j].done) => plan_steps[i].done

\* the positions of the steps this step of the state machine marks done
MarkedNow ==
    {i \in 1..Len(ctx.plan_steps) : ~ctx.plan_steps[i].done /\ ctx'.plan_steps[i].done}

\* the position of the first step of the plan that is not done
FirstOpen(plan_steps) == SetMin({i \in 1..Len(plan_steps) : ~plan_steps[i].done})

\* C32: steps are completed in plan order, one at a time. While
\* process_ticket_work runs the plan keeps its steps and no done flag is taken
\* back; a step is marked done only while it is the first not-done step of the
\* plan; at most one step is marked done per iteration (a step is marked only on
\* the way from VERIFY_STEP to COMMIT_CHANGES, and COMMIT_CHANGES and SAVE_STATE
\* end the iteration without marking any); and a plan whose done steps form a
\* prefix keeps that form, so that the done steps form a prefix of the plan in
\* every state a run reaches from a new plan or from the plan it saved.
C32_StepsDoneInPlanOrder ==
    [][/\ DonePrefix(ctx'.plan_steps)
       /\ (pc = "running" /\ pc' # "not started") =>
          /\ Len(ctx'.plan_steps) = Len(ctx.plan_steps)
          /\ \A i \in 1..Len(ctx.plan_steps) :
               /\ ctx'.plan_steps[i].id = ctx.plan_steps[i].id
               /\ ctx.plan_steps[i].done => ctx'.plan_steps[i].done
          /\ Cardinality(MarkedNow) <= 1
          /\ \A i \in MarkedNow : /\ i = FirstOpen(ctx.plan_steps)
                                  /\ ctx.plan_steps[i].id = ctx.current_step
          /\ MarkedNow # {} => state = "VERIFY_STEP" /\ state' = "COMMIT_CHANGES"
          /\ state = "COMMIT_CHANGES" => state' = "SAVE_STATE"
          /\ state = "SAVE_STATE" =>
               \/ ctx'.loop_iter = ctx.loop_iter + 1
               \/ pc' = "returned False"
          /\ DonePrefix(ctx.plan_steps) => DonePrefix(ctx'.plan_steps)]_vars

\* step 2 has just been marked done in the second iteration of a run that marked
\* step 1 in its first
C32_Witness ==
    /\ Running("COMMIT_CHANGES")
    /\ Len(ctx.plan_steps) = 2
    /\ ctx.current_step = 2
    /\ ctx.loop_iter = 2
    /\ ctx.plan_steps[1].done
    /\ ctx.plan_steps[2].done
    /\ ~obs.resumed

\* C37: process_ticket_work returns True whenever every plan step is done at the
\* moment it returns, also when the last step is verified and committed in
\* iteration number max_iterations.
C37_AllDoneReturnsTrue ==
    (pc \in {"returned True", "returned False"} /\ Incomplete(ctx.plan_steps) = <<>>)
        => pc = "returned True"

\* C38: every file that the backend changed during an iteration, also in an
\* EXECUTE_WORK attempt that a verify retry followed within the same iteration,
\* is in the file list of the commit made by that iteration's COMMIT_CHANGES:
\* unless git_commit failed, no file changed in the iteration is left uncommitted
\* when SAVE_STATE is reached.
C38_IterationFilesCommitted ==
    (Running("SAVE_STATE") /\ obs.iter_commit # "failed") =>
        /\ obs.iter_changed \cap dirty = {}
        /\ obs.iter_changed # {} => obs.iter_commit \in {"pass", "fail"}

\* the step's verification ran in this iteration and did not pass: the active
\* step is not marked done
NotVerifiedInIteration ==
    /\ obs.iter_verifies > 0
    /\ \E i \in 1..Len(ctx.plan_steps) :
         ctx.plan_steps[i].id = ctx.current_step /\ ~ctx.plan_steps[i].done

\* C39: for every commit made by COMMIT_CHANGES the Lisa-Status trailer is FAIL
\* if and only if the commit title carries the "[FAIL] " marker, that is, if and
\* only if the step's verification did not pass in that iteration (on tests, on
\* review or on the completion check).
C39_StatusTrailerMatchesTitle ==
    (Running("SAVE_STATE") /\ obs.iter_commit \in {"pass", "fail"}) =>
        /\ commits[1].trailers.status = "FAIL" <=> commits[1].title_fail
        /\ commits[1].title_fail <=> NotVerifiedInIteration

(***************************************************************************)
(* SpecGit: one reading of the commits of a branch by fetch_git_state and  *)
(* of a Progress Document by fetch_state, each under the lisa naming and   *)
(* under the legacy tralph naming.                                         *)
(***************************************************************************)
notGit == <<docVars, verifyVars, workVars, storeVars, commitVars, moreVars>>

\* a trailer the commit message does not carry
NoTrailer == <<"no trailer">>

MaxCommits == 4

\* the commits of a branch: one that git_commit wrote without iter_state (no
\* trailers), and commits with trailers under either prefix. The newest commit
\* may lack the Test-Error and Review-Issues trailers or carry "none"; older ones
\* carry "none" or errors; the commits of the legacy scheme carry the Files trailer
PlainCommit ==
    [prefix |-> "", test_error |-> NoTrailer, review_issues |-> NoTrailer, files |-> NoTrailer]
LegacyFiles(prefix) == IF prefix = "Tralph-" THEN <<"f", ",", " ", "g">> ELSE NoTrailer
NewestCommits ==
    {PlainCommit} \cup
    { [prefix |-> p, test_error |-> t, review_issues |-> r, files |-> LegacyFiles(p)] :
        p \in {"Lisa-", "Tralph-"}, t \in {NoTrailer, NoneText, <<"E", ":", "1">>},
        r \in {NoTrailer, NoneText, <<"r", "1">>} }
OlderCommits ==
    {PlainCommit} \cup
    { [prefix |-> p, test_error |-> e[1], review_issues |-> e[2], files |-> LegacyFiles(p)] :
        p \in {"Lisa-", "Tralph-"}, e \in {<<NoneText, NoneText>>, <<<<"e", "0">>, <<"r", "0">>>>} }

\* the commit at position k of n, newest first, was made in iteration n - k + 1
GitBranches ==
    { <<>> } \cup
    UNION { { [k \in 1..n |-> [commit |-> (<<first>> \o rest)[k], iteration |-> n - k + 1]] :
                first \in NewestCommits, rest \in [1..(n - 1) -> OlderCommits] } :
            n \in 1..MaxCommits }

\* the message git_commit writes (git/commit.py 122-145): title, task body and,
\* with iter_state, the trailers; legacy commits carry the Files trailer
CommitMessage(c) ==
    LET t == c.commit
        trailer(name, value) ==
            IF value = NoTrailer THEN <<>> ELSE << TrailerLine(t.prefix, name, value) >>
    IN  << <<"f", "i", "x", ":", " ", "a">>, <<>>, <<"a">> >>
        \o (IF t.prefix = "" THEN <<>>
            ELSE << <<>>, TrailerLine(t.prefix, "Iteration", StrOfInt(c.iteration)),
                    TrailerLine(t.prefix, "Status",
                                IF t.test_error \in {NoTrailer, NoneText}
                                THEN <<"P", "A", "S", "S">> ELSE <<"F", "A", "I", "L">>) >>
                 \o trailer("Files", t.files)
                 \o trailer("Test-Error", t.test_error)
                 \o trailer("Review-Issues", t.review_issues))

GitLog(branch) == [k \in 1..Len(branch) |-> CommitMessage(branch[k])]

\* the same commits with every Lisa- trailer key replaced by Tralph-
LegacyLine(line) ==
    IF line # <<>> /\ line[1] = "Lisa-" THEN <<"Tralph-">> \o Tail(line) ELSE line
LegacyLog(log) ==
    [k \in 1..Len(log) |-> [l \in 1..Len(log[k]) |-> LegacyLine(log[k][l])]]

\* the same document under the tralph header
LegacyBody(body) == <<LegacyHeader>> \o Tail(body)

\* the documents read: those of SpecDoc without decision records, in iteration 1
GitDocuments ==
    UNION { { build_state_comment(1, cur, steps, << <<"l">> >>, <<>>) :
                steps \in DocSteps(n), cur \in {NoneInt} \cup {DocStepId(i) : i \in 1..n} } :
            n \in 0..MaxDocSteps }

\* a branch of four commits with trailers, and a document with one open step
GitBranchFixed ==
    [k \in 1..MaxCommits |->
        [commit |-> [prefix |-> "Lisa-", test_error |-> NoneText,
                     review_issues |-> NoneText, files |-> NoTrailer],
         iteration |-> MaxCommits - k + 1]]
GitDocumentFixed ==
    build_state_comment(1, DocStepId(1), << [id |-> DocStepId(1), ticket |-> <<>>, description |-> <<"a">>,
                                  done |-> FALSE, files |-> <<>>] >>, << <<"l">> >>, <<>>)

GitInit ==
    /\ g_pc = "input"
    /\ \/ g_in \in GitBranches /\ g_body = GitDocumentFixed
       \/ g_in = GitBranchFixed /\ g_body \in GitDocuments
    /\ g_git = NoGitState
    /\ g_git_legacy = NoGitState
    /\ g_state = NoState
    /\ g_state_legacy = NoState
    /\ DocIdle
    /\ VerifyIdle
    /\ WorkIdle
    /\ StoreIdle
    /\ CommitIdle
    /\ MoreIdle

\* fetch_git_state(branch_name) (state/git.py 10-84)
GitFetch ==
    /\ g_pc = "input"
    /\ g_git' = fetch_git_state_of(GitLog(g_in))
    /\ g_pc' = "read"
    /\ UNCHANGED <<g_in, g_body, g_git_legacy, g_state, g_state_legacy, notGit>>

\* fetch_git_state(branch_name) on the branch with the legacy trailer keys
GitFetchLegacy ==
    /\ g_pc = "read"
    /\ g_git_legacy' = fetch_git_state_of(LegacyLog(GitLog(g_in)))
    /\ g_pc' = "read legacy"
    /\ UNCHANGED <<g_in, g_body, g_git, g_state, g_state_legacy, notGit>>

\* fetch_state(issue_uuid, branch_name) (state/comment.py 142-157)
GitFetchState ==
    /\ g_pc = "read legacy"
    /\ g_state' = fetch_state(<<g_body>>)
    /\ g_pc' = "state"
    /\ UNCHANGED <<g_in, g_body, g_git, g_git_legacy, g_state_legacy, notGit>>

\* fetch_state(issue_uuid, branch_name) on the document with the legacy header
GitFetchStateLegacy ==
    /\ g_pc = "state"
    /\ g_state_legacy' = fetch_state(<<LegacyBody(g_body)>>)
    /\ g_pc' = "done"
    /\ UNCHANGED <<g_in, g_body, g_git, g_git_legacy, g_state, notGit>>

GitNext == GitFetch \/ GitFetchLegacy \/ GitFetchState \/ GitFetchStateLegacy

SpecGit == GitInit /\ [][GitNext]_vars

\* the commits git log --grep selects, and the value a trailer of the newest of
\* them gives
HasTrailers(c) == c.commit.prefix # ""
RECURSIVE Matching(_, _)
Matching(branch, k) ==
    IF k > Len(branch) THEN <<>>
    ELSE (IF HasTrailers(branch[k]) THEN <<branch[k]>> ELSE <<>>) \o Matching(branch, k + 1)
MatchingCommits == Matching(g_in, 1)
NewestValue(value) == IF value \in {NoTrailer, NoneText} THEN None ELSE value
SetMin2(a, b) == IF a < b THEN a ELSE b

\* C17: fetch_git_state takes last_test_error and last_review_issues from the
\* newest matching commit only ("none" or a missing trailer there gives None,
\* whatever older commits carry), and the history holds the 3 newest matching
\* commits at most, newest first
C17_NewestCommitOnly ==
    g_pc \notin {"idle", "input"} =>
        /\ g_git.last_test_error =
               IF MatchingCommits = <<>> THEN None
               ELSE NewestValue(MatchingCommits[1].commit.test_error)
        /\ g_git.last_review_issues =
               IF MatchingCommits = <<>> THEN None
               ELSE NewestValue(MatchingCommits[1].commit.review_issues)
        /\ Len(g_git.iterations) = SetMin2(3, Len(MatchingCommits))
        /\ \A k \in 1..Len(g_git.iterations) :
               g_git.iterations[k].iteration = MatchingCommits[k].iteration

\* four matching commits, the newest without errors, an older one with both
C17_Witness ==
    /\ g_pc = "read"
    /\ Len(MatchingCommits) = 4
    /\ MatchingCommits[1].commit.test_error = NoneText
    /\ MatchingCommits[1].commit.review_issues = NoTrailer
    /\ MatchingCommits[2].commit.test_error = <<"e", "0">>
    /\ MatchingCommits[2].commit.review_issues = <<"r", "0">>
    /\ g_git.last_test_error = None
    /\ g_git.last_review_issues = None
    /\ Len(g_git.iterations) = 3
    /\ g_git.iterations[1].iteration = 4

\* C18: reading does not depend on the naming scheme: fetch_git_state returns
\* the same result for the branch under Tralph- trailer keys, and fetch_state
\* the same plan for the document under the tralph header
C18_NamingIndependent ==
    /\ g_pc \in {"read legacy", "state", "done"} => g_git_legacy = g_git
    /\ g_pc = "done" => g_state_legacy.plan_steps = g_state.plan_steps

\* a branch with Lisa- commits that carries an error, and a document with a plan
C18_Witness ==
    /\ g_pc = "done"
    /\ \E k \in 1..Len(g_in) : g_in[k].commit.prefix = "Lisa-"
    /\ g_git_legacy = g_git
    /\ g_git.last_test_error = <<"E", ":", "1">>
    /\ Len(g_git.iterations) = 3
    /\ Len(g_state.plan_steps) = 1
    /\ g_state_legacy.plan_steps = g_state.plan_steps
    /\ g_state_legacy.comment_id = 1

(***************************************************************************)
(* SpecCommit: one call of git_commit (git/commit.py 85-215) on a working  *)
(* tree with changes, by each of its callers in phases/work.py and by a    *)
(* caller that passes a model. Every git command and the push may fail.    *)
(***************************************************************************)
notCommit == <<docVars, verifyVars, workVars, storeVars, gitVars, moreVars>>

\* MAX_HOOK_FIX_ATTEMPTS (phases/constants.py 17)
MAX_HOOK_FIX_ATTEMPTS == 2

\* the calls of git_commit: handle_commit_changes (work.py 517-526) and the
\* coverage commit of handle_all_done (work.py 642-648) pass neither model nor
\* allow_no_verify, the cleanup commit of handle_all_done (work.py 605-612)
\* passes allow_no_verify=False, and a direct call passes any of them
GitCommitCalls ==
    [caller : {"handle_commit_changes", "handle_all_done coverage"}, model : {NoModel},
     allow_no_verify : {TRUE}, max_hook_fix_attempts : {MAX_HOOK_FIX_ATTEMPTS}, push : BOOLEAN]
    \cup
    [caller : {"handle_all_done cleanup"}, model : {NoModel},
     allow_no_verify : {FALSE}, max_hook_fix_attempts : {MAX_HOOK_FIX_ATTEMPTS}, push : BOOLEAN]
    \cup
    [caller : {"direct"}, model : {NoModel, "opus"},
     allow_no_verify : BOOLEAN, max_hook_fix_attempts : 0..MAX_HOOK_FIX_ATTEMPTS, push : BOOLEAN]

CommitEvent(kind, ok) == [kind |-> kind, ok |-> ok]

CommitInit ==
    /\ c_pc = "call"
    /\ c_call \in GitCommitCalls
    /\ c_attempt = 0
    /\ c_events = <<>>
    /\ c_result = FALSE
    /\ DocIdle
    /\ VerifyIdle
    /\ WorkIdle
    /\ StoreIdle
    /\ GitIdle
    /\ MoreIdle

\* git status and git add (git/commit.py 104-119)
CommitStage ==
    /\ c_pc = "call"
    /\ \E outcome \in {"status failed", "no changes", "add failed", "staged"} :
         /\ c_pc' = IF outcome = "staged" THEN "commit" ELSE "returned"
         /\ c_result' = (outcome = "no changes")
    /\ UNCHANGED <<c_call, c_attempt, c_events, notCommit>>

\* if model and max_hook_fix_attempts > 0
FixLoopRuns(model, max_hook_fix_attempts) == model # NoModel /\ max_hook_fix_attempts > 0

\* for attempt in range(1, max_hook_fix_attempts + 1): another attempt follows
AttemptLeft_one_more(attempt, max_hook_fix_attempts) == attempt <= max_hook_fix_attempts
AttemptLeft(attempt, max_hook_fix_attempts) == attempt < max_hook_fix_attempts

\* the first git commit (git/commit.py 147-153)
CommitFirst ==
    /\ c_pc = "commit"
    /\ \E ok \in BOOLEAN :
         /\ c_events' = Append(c_events, CommitEvent("commit", ok))
         /\ IF ok THEN c_pc' = "committed" /\ c_attempt' = c_attempt
            ELSE IF FixLoopRuns(c_call.model, c_call.max_hook_fix_attempts)
            THEN c_pc' = "fix" /\ c_attempt' = 1
            ELSE c_pc' = "failed" /\ c_attempt' = c_attempt
    /\ UNCHANGED <<c_call, c_result, notCommit>>

\* work_claude(fix_prompt, model, ...) and the re-staging (git/commit.py 154-174)
CommitHookFix ==
    /\ c_pc = "fix"
    /\ c_events' = Append(c_events, CommitEvent("fix", TRUE))
    /\ c_pc' = "retry"
    /\ UNCHANGED <<c_call, c_attempt, c_result, notCommit>>

\* the retried commit of an attempt (git/commit.py 176-182)
CommitRetry ==
    /\ c_pc = "retry"
    /\ \E ok \in BOOLEAN :
         /\ c_events' = Append(c_events, CommitEvent("commit", ok))
         /\ IF ok THEN c_pc' = "committed" /\ c_attempt' = c_attempt
            ELSE IF AttemptLeft(c_attempt, c_call.max_hook_fix_attempts)
            THEN c_pc' = "fix" /\ c_attempt' = c_attempt + 1
            ELSE c_pc' = "failed" /\ c_attempt' = c_attempt
    /\ UNCHANGED <<c_call, c_result, notCommit>>

\* the commit still fails after the fix attempts (git/commit.py 184-201): return
\* False, or commit with --no-verify
CommitNoVerify ==
    /\ c_pc = "failed"
    /\ IF ~c_call.allow_no_verify
       THEN c_pc' = "returned" /\ c_result' = FALSE /\ c_events' = c_events
       ELSE \E ok \in BOOLEAN :
              /\ c_events' = Append(c_events, CommitEvent("no-verify commit", ok))
              /\ c_pc' = IF ok THEN "committed" ELSE "returned"
              /\ c_result' = FALSE
    /\ UNCHANGED <<c_call, c_attempt, notCommit>>

\* the commit is made: the push, if asked for (git/commit.py 203-215)
CommitPush ==
    /\ c_pc = "committed"
    /\ IF c_call.push
       THEN \E ok \in BOOLEAN :
              /\ c_events' = Append(c_events, CommitEvent("push", ok))
              /\ c_result' = ok
       ELSE c_events' = c_events /\ c_result' = TRUE
    /\ c_pc' = "returned"
    /\ UNCHANGED <<c_call, c_attempt, notCommit>>

CommitNext ==
    CommitStage \/ CommitFirst \/ CommitHookFix \/ CommitRetry \/ CommitNoVerify \/ CommitPush

SpecCommit == CommitInit /\ [][CommitNext]_vars

\* the events of a kind, by position
EventsOf(kind) == {i \in 1..Len(c_events) : c_events[i].kind = kind}
AllCommitsFailed == \A i \in EventsOf("commit") : ~c_events[i].ok

\* C19: when the first commit of git_commit called with a model fails, at most
\* max_hook_fix_attempts backend fix calls are made, each followed by one
\* retried commit, and none after a commit that succeeded; a --no-verify commit
\* comes only after all these retries failed and only with allow_no_verify; with
\* allow_no_verify false git_commit returns False and issues no --no-verify commit
C19_HookFixLoop ==
    (/\ c_call.model # NoModel
     /\ c_events # <<>>
     /\ ~c_events[1].ok) =>
        /\ Cardinality(EventsOf("fix")) <= c_call.max_hook_fix_attempts
        /\ \A i \in EventsOf("fix") :
               /\ c_events[i - 1].kind = "commit" /\ ~c_events[i - 1].ok
               /\ IF i = Len(c_events) THEN c_pc = "retry" ELSE c_events[i + 1].kind = "commit"
        /\ \A i \in EventsOf("commit") : i > 1 => c_events[i - 1].kind = "fix"
        /\ \A i \in EventsOf("no-verify commit") :
               /\ c_call.allow_no_verify
               /\ AllCommitsFailed
               /\ Cardinality(EventsOf("fix")) = c_call.max_hook_fix_attempts
               /\ Cardinality(EventsOf("commit")) = c_call.max_hook_fix_attempts + 1
        /\ ~c_call.allow_no_verify =>
               /\ EventsOf("no-verify commit") = {}
               /\ (c_pc = "returned" /\ AllCommitsFailed) => ~c_result

\* the default two fix attempts were used up and the --no-verify commit was made
C19_Witness ==
    /\ c_pc = "returned"
    /\ c_call.model = "opus"
    /\ c_call.max_hook_fix_attempts = MAX_HOOK_FIX_ATTEMPTS
    /\ c_events = << CommitEvent("commit", FALSE), CommitEvent("fix", TRUE),
                     CommitEvent("commit", FALSE), CommitEvent("fix", TRUE),
                     CommitEvent("commit", FALSE), CommitEvent("no-verify commit", TRUE) >>
    /\ c_result

\* C20: when the commit issued by COMMIT_CHANGES fails, the backend is asked to
\* fix the hook complaint, and the commit is retried, before any --no-verify
\* commit is made
C20_FixBeforeNoVerify ==
    c_call.caller = "handle_commit_changes" =>
        \A i \in EventsOf("no-verify commit") :
            \E j \in EventsOf("fix") : j < i /\ c_events[j + 1].kind = "commit"


(***************************************************************************)
(* SpecRun: one run of main() and process_ticket_work on a unit with no    *)
(* prior state, a plan of MaxSteps steps and an iteration budget that      *)
(* suffices for it; every work call reports the active step done and       *)
(* changes files, every verification passes.  Whether a git commit, a save *)
(* of the Progress Document or the editor of the assumptions succeeds is   *)
(* left open.                                                              *)
(***************************************************************************)
\* the iterations a plan of MaxSteps steps takes: one for each step, and the one
\* whose SELECT_STEP finds no step open (work.py 730, 757-759)
SufficientIterations == MaxSteps + 1

InitRun ==
    /\ pc = "not started"
    /\ \E skip_verify \in BOOLEAN :
         ctx = [IdleContext EXCEPT !.skip_verify = skip_verify,
                                   !.max_iterations = SufficientIterations]
    /\ WorkFresh
    /\ DocIdle
    /\ VerifyIdle
    /\ AuxIdle

\* main() on the unit: the planner returns a plan of MaxSteps steps
RunMain ==
    /\ main
    /\ Len(ctx'.plan_steps) = MaxSteps

\* the work call returns JSON that reports the active step done, and changes files
RunWork ==
    /\ handle_execute_work
    /\ obs'.work_json
    /\ ctx'.work_result.step_done = ctx.current_step
    /\ dirty' # {}
    /\ obs'.iter_changed # {}

\* verify_step returns a passed result (or --skip-verify leaves it out)
RunVerify ==
    /\ handle_verify_step
    /\ pc' # "raised"
    /\ ctx'.tests_passed
    /\ ctx.current_step \in obs'.verified

NextRun ==
    \/ RunMain
    \/ handle_select_step
    \/ RunWork
    \/ handle_assumptions
    \/ handle_check_completion
    \/ RunVerify
    \/ handle_commit_changes
    \/ handle_save_state
    \/ handle_all_done

SpecRun == InitRun /\ [][NextRun]_vars

NoCommitFailedNoQuit == pc # "exited" /\ obs.iter_commit # "failed"

notCall == <<docVars, verifyVars, workVars, storeVars, gitVars, commitVars, sessionVars,
            preflightVars>>

\* the blocked reasons a work result carries: the key absent or null, an empty
\* string, a reason
BlockedReasons == {None, <<>>, <<"k", "e", "y">>}

\* decision records the context holds when CHECK_COMPLETION is entered: one of
\* the planning phase, one of this iteration, a manual action of an earlier one
PlanningRecord == Assumption(<<"P", ".", "1">>, TRUE, <<"s">>, <<"r">>)
IterationRecord == Assumption(<<"1", ".", "1">>, TRUE, <<"t">>, <<>>)
EarlierManual ==
    Assumption(<<"1">>, FALSE, <<"M", "A", "N", "U", "A", "L", ":", " ", "x">>, <<"b">>)

\* the plans the context holds when CHECK_COMPLETION is entered: MaxSteps steps,
\* any of them done
CompletionPlans ==
    { [i \in 1..MaxSteps |-> [id |-> i, ticket |-> <<>>, description |-> <<"a">>,
                              done |-> d[i], files |-> <<>>]] :
        d \in [1..MaxSteps -> BOOLEAN] }

\* the failure signals an earlier verification left in the context: none, or the
\* one FailureContext sets
CompletionSignals ==
    { [last_test_error |-> None, last_review_issues |-> None,
       last_completion_issues |-> None],
      [last_test_error |-> <<"e1">>, last_review_issues |-> None,
       last_completion_issues |-> None],
      [last_test_error |-> None, last_review_issues |-> <<"r1">>,
       last_completion_issues |-> None],
      [last_test_error |-> None, last_review_issues |-> None,
       last_completion_issues |-> <<"m1">>] }

\* the fields of the WorkContext handle_check_completion reads and writes, with
\* the plan and the failure signals
CompletionContexts ==
    { [current_step |-> cs, work_result |-> [step_done |-> sd, blocked |-> b],
       assumptions |-> a, all_assumptions |-> e \o a,
       step_done |-> d, tests_passed |-> ~d, review_status |-> "NEEDS_FIXES",
       plan_steps |-> pl, last_test_error |-> sg.last_test_error,
       last_review_issues |-> sg.last_review_issues,
       last_completion_issues |-> sg.last_completion_issues] :
        cs \in 1..MaxSteps, sd \in {NoneInt} \cup 1..MaxSteps, b \in BlockedReasons,
        a \in {<<>>, <<IterationRecord>>, <<EarlierManual, IterationRecord>>},
        e \in {<<>>, <<PlanningRecord>>}, d \in BOOLEAN,
        pl \in CompletionPlans, sg \in CompletionSignals }

\* if ctx.work_result.get("blocked"): None and the empty string are falsy
IsBlocked_never(work_result) == FALSE
IsBlocked(work_result) == work_result.blocked # None /\ work_result.blocked # <<>>

\* f"MANUAL: {blocked_reason}"
ManualStatement(blocked_reason) ==
    <<"M", "A", "N", "U", "A", "L", ":", " ">> \o blocked_reason

BlockedRationale == <<"Blocked - requires manual action">>

\* the manual action handle_check_completion records (work.py 378-383)
ManualAction(c) ==
    Assumption(StrOfInt(Len(c.assumptions) + 1), FALSE,
               ManualStatement(c.work_result.blocked), BlockedRationale)

\* handle_check_completion (work.py 366-403): the context it leaves and the state
\* it returns
check_completion(c) ==
    LET noted == IF IsBlocked(c.work_result)
                 THEN [c EXCEPT !.assumptions = Append(@, ManualAction(c)),
                                !.all_assumptions = Append(@, ManualAction(c))]
                 ELSE c
        completed_step == c.work_result.step_done
        done == StepReported(completed_step, c.current_step)
    IN  [ctx |-> [noted EXCEPT !.step_done = done, !.tests_passed = TRUE,
                               !.review_status = "skipped"],
         state |-> IF done THEN "VERIFY_STEP" ELSE "COMMIT_CHANGES"]

CompletionInit ==
    /\ f_pc = "input"
    /\ f_in \in CompletionContexts
    /\ f_out = <<>>
    /\ DocIdle
    /\ VerifyIdle
    /\ WorkIdle
    /\ StoreIdle
    /\ GitIdle
    /\ CommitIdle
    /\ SessionIdle
    /\ PreflightIdle

CompletionCall ==
    /\ f_pc = "input"
    /\ f_out' = check_completion(f_in)
    /\ f_pc' = "done"
    /\ UNCHANGED <<f_in, notCall>>

SpecCompletion == CompletionInit /\ [][CompletionCall]_vars

\* the same work result without the blocked reason
Unblocked(c) == [c EXCEPT !.work_result.blocked = None]

C31_VerifyOnlyWhenStepReported ==
    f_pc = "done" =>
        /\ f_out.state = "VERIFY_STEP" <=> f_in.work_result.step_done = f_in.current_step
        /\ f_out.ctx.step_done <=> f_in.work_result.step_done = f_in.current_step
        /\ f_in.work_result.step_done # f_in.current_step =>
             /\ f_out.state = "COMMIT_CHANGES"
             /\ f_out.ctx.plan_steps = f_in.plan_steps
             /\ f_out.ctx.last_test_error = f_in.last_test_error
             /\ f_out.ctx.last_review_issues = f_in.last_review_issues
             /\ f_out.ctx.last_completion_issues = f_in.last_completion_issues

\* the work result names another step than the active one, which is not done, in
\* a context that holds a failure signal
C31_Witness ==
    /\ f_pc = "done"
    /\ f_in.current_step = 1
    /\ f_in.work_result.step_done = 2
    /\ ~f_in.plan_steps[1].done
    /\ f_in.last_test_error = <<"e1">>
    /\ f_out.state = "COMMIT_CHANGES"

(***************************************************************************)
(* SpecSession: one process running main() in work mode (no --review-only, *)
(* --conclusion or --dry-run) on the ticket ids of the command line, with  *)
(* or without a session worktree, and SIGINT and SIGTERM arriving at any   *)
(* point. A unit is reduced to the way its processing ends.                *)
(***************************************************************************)
notSession == <<docVars, verifyVars, workVars, storeVars, gitVars, commitVars, callVars,
               preflightVars>>

\* len(config.ticket_ids) is at most MaxUnits; at most MaxSignals signals arrive
MaxUnits == 2
MaxSignals == 2

\* signal.SIGINT and signal.SIGTERM
SIGINT == 2
SIGTERM == 15
Signals == {SIGINT, SIGTERM}

\* how the processing of one unit ends: process_ticket_work returns True or False,
\* the unit is skipped because all its plan steps are done (cli.py 834-839),
\* sys.exit(1) is called in main() or in a handler, or an exception escapes
UnitOutcomes == {"returned True", "returned False", "skipped", "exited", "raised"}

SessionInit ==
    /\ m_pc = "start"
    /\ m_config \in [worktree : BOOLEAN, num_tickets : 1..MaxUnits]
    /\ m_tree = "none"
    /\ m_atexit = FALSE
    /\ m_handlers = {}
    /\ m_cleaned = FALSE
    /\ m_removing = NoRemoval
    /\ m_removes = 0
    /\ m_outcomes = <<>>
    /\ m_exit = NoneInt
    /\ m_signals = <<>>
    /\ DocIdle
    /\ VerifyIdle
    /\ WorkIdle
    /\ StoreIdle
    /\ GitIdle
    /\ CommitIdle
    /\ CallIdle
    /\ PreflightIdle

\* sys.exit(status), or an exception that escapes main(): the interpreter shuts down
Exiting(status) ==
    /\ m_pc' = "exiting"
    /\ m_exit' = status

\* if config.worktree and not config.dry_run: create_session_worktree returns a
\* path or None (cli.py 517-529); else the preflight runs in the original directory
SessionCreate ==
    /\ m_pc = "start"
    /\ IF m_config.worktree
       THEN \E created \in BOOLEAN :
              IF created
              THEN /\ m_tree' = "exists"
                   /\ m_pc' = "created"
                   /\ UNCHANGED m_exit
              ELSE /\ Exiting(1)
                   /\ UNCHANGED m_tree
       ELSE /\ m_pc' = "setup"
            /\ UNCHANGED <<m_tree, m_exit>>
    /\ UNCHANGED <<m_config, m_atexit, m_handlers, m_cleaned, m_removing, m_removes,
                   m_outcomes, m_signals, notSession>>

\* os.chdir(session_worktree_path); atexit.register(cleanup_session_worktree)
\* (cli.py 529-531)
SessionRegisterAtexit ==
    /\ m_pc = "created"
    /\ m_atexit' = TRUE
    /\ m_pc' = "atexit registered"
    /\ UNCHANGED <<m_config, m_tree, m_handlers, m_cleaned, m_removing, m_removes,
                   m_outcomes, m_exit, m_signals, notSession>>

\* signal.signal(signal.SIGINT, session_signal_handler) (cli.py 532)
SessionRegisterSigint ==
    /\ m_pc = "atexit registered"
    /\ m_handlers' = m_handlers \cup {SIGINT}
    /\ m_pc' = "SIGINT registered"
    /\ UNCHANGED <<m_config, m_tree, m_atexit, m_cleaned, m_removing, m_removes,
                   m_outcomes, m_exit, m_signals, notSession>>

\* signal.signal(signal.SIGTERM, session_signal_handler) (cli.py 533)
SessionRegisterSigterm ==
    /\ m_pc = "SIGINT registered"
    /\ m_handlers' = m_handlers \cup {SIGTERM}
    /\ m_pc' = "setup"
    /\ UNCHANGED <<m_config, m_tree, m_atexit, m_cleaned, m_removing, m_removes,
                   m_outcomes, m_exit, m_signals, notSession>>

\* the preflight branch, run_setup and run_preflight (cli.py 534-566): sys.exit(1)
\* when one of them fails
SessionSetup ==
    /\ m_pc = "setup"
    /\ \E ok \in BOOLEAN :
         IF ok THEN m_pc' = "units" /\ UNCHANGED m_exit
         ELSE Exiting(1)
    /\ UNCHANGED <<m_config, m_tree, m_atexit, m_handlers, m_cleaned, m_removing, m_removes,
                   m_outcomes, m_signals, notSession>>

\* one pass of `for ticket_idx, ticket_id in enumerate(config.ticket_ids, 1)`
\* (cli.py 568-890)
SessionUnit ==
    /\ m_pc = "units"
    /\ Len(m_outcomes) < m_config.num_tickets
    /\ \E outcome \in UnitOutcomes :
         /\ m_outcomes' = Append(m_outcomes, outcome)
         /\ IF outcome \in {"exited", "raised"} THEN Exiting(1)
            ELSE UNCHANGED <<m_pc, m_exit>>
    /\ UNCHANGED <<m_config, m_tree, m_atexit, m_handlers, m_cleaned, m_removing, m_removes,
                   m_signals, notSession>>

\* failed_tickets: the units for which process_ticket_work returned False
\* (cli.py 885-886)
FailedTickets(outcomes) == {i \in 1..Len(outcomes) : outcomes[i] = "returned False"}

\* the report after the loop (cli.py 901-913): sys.exit(1) if failed_tickets, else
\* main() returns
ReportStatus_zero(outcomes) == 0
ReportStatus(outcomes) == IF FailedTickets(outcomes) # {} THEN 1 ELSE 0

SessionReport ==
    /\ m_pc = "units"
    /\ Len(m_outcomes) = m_config.num_tickets
    /\ Exiting(ReportStatus(m_outcomes))
    /\ UNCHANGED <<m_config, m_tree, m_atexit, m_handlers, m_cleaned, m_removing, m_removes,
                   m_outcomes, m_signals, notSession>>

\* if session_worktree_path and not session_worktree_cleaned (cli.py 508)
CleanupDue == m_tree # "none" /\ ~m_cleaned

\* the first lines of cleanup_session_worktree when the cleanup is due (cli.py
\* 509-511): the flag is set and remove_worktree is entered
EnterRemove(by, status) ==
    /\ m_cleaned' = TRUE
    /\ m_removes' = m_removes + 1
    /\ m_removing' = [by |-> by, status |-> status]
    /\ m_pc' = "removing"

\* the interpreter shuts down and runs the functions registered with atexit
SessionShutdown ==
    /\ m_pc = "exiting"
    /\ IF m_atexit /\ CleanupDue
       THEN EnterRemove("atexit", m_exit)
       ELSE /\ m_pc' = "ended"
            /\ UNCHANGED <<m_cleaned, m_removes, m_removing>>
    /\ UNCHANGED <<m_config, m_tree, m_atexit, m_handlers, m_outcomes, m_exit, m_signals,
                   notSession>>

\* remove_worktree returns (git/worktree.py 37-86), its removal taken to succeed;
\* called by the signal handler, sys.exit(128 + sig) follows (cli.py 515)
SessionRemoved ==
    /\ m_pc = "removing"
    /\ m_tree' = "removed"
    /\ m_removing' = NoRemoval
    /\ IF m_removing.by = "atexit"
       THEN m_pc' = "ended" /\ UNCHANGED m_exit
       ELSE Exiting(m_removing.status)
    /\ UNCHANGED <<m_config, m_atexit, m_handlers, m_cleaned, m_removes, m_outcomes,
                   m_signals, notSession>>

\* an exception (SystemExit of the handler, KeyboardInterrupt) is raised where the
\* main thread is. Inside remove_worktree it ends the call before the removal is
\* done: subprocess.run kills the git command it waits for, which may or may not
\* have removed the worktree by then
RaisedHere(status) ==
    IF m_pc = "removing"
    THEN /\ \E left \in {"exists", "removed"} : m_tree' = left
         /\ m_removing' = NoRemoval
         /\ IF m_removing.by = "atexit"
            THEN m_pc' = "ended" /\ UNCHANGED m_exit
            ELSE Exiting(status)
    ELSE /\ Exiting(status)
         /\ UNCHANGED <<m_tree, m_removing>>

\* a signal the process has no handler for: SIGTERM ends the process at once,
\* SIGINT raises KeyboardInterrupt in the main thread
DefaultAction(sig) ==
    IF sig = SIGTERM
    THEN /\ m_pc' = "ended"
         /\ m_exit' = 128 + sig
         /\ UNCHANGED <<m_tree, m_removing>>
    ELSE RaisedHere(128 + sig)

\* session_signal_handler (cli.py 513-515)
session_signal_handler(sig) ==
    IF CleanupDue
    THEN /\ EnterRemove("handler", 128 + sig)
         /\ UNCHANGED <<m_tree, m_exit>>
    ELSE /\ RaisedHere(128 + sig)
         /\ UNCHANGED <<m_cleaned, m_removes>>

\* SIGINT or SIGTERM is delivered to the process
SessionSignal ==
    /\ m_pc \notin {"idle", "ended"}
    /\ Len(m_signals) < MaxSignals
    /\ \E sig \in Signals :
         /\ m_signals' = Append(m_signals, sig)
         /\ IF sig \in m_handlers
            THEN session_signal_handler(sig)
            ELSE DefaultAction(sig) /\ UNCHANGED <<m_cleaned, m_removes>>
    /\ UNCHANGED <<m_config, m_atexit, m_handlers, m_outcomes, notSession>>

SessionNext ==
    \/ SessionCreate
    \/ SessionRegisterAtexit
    \/ SessionRegisterSigint
    \/ SessionRegisterSigterm
    \/ SessionSetup
    \/ SessionUnit
    \/ SessionReport
    \/ SessionShutdown
    \/ SessionRemoved
    \/ SessionSignal

SpecSession == SessionInit /\ [][SessionNext]_vars

\* the units were all processed to an ordinary end: no sys.exit, no exception
OrdinaryOutcomes == \A i \in 1..Len(m_outcomes) : m_outcomes[i] \notin {"exited", "raised"}

\* C24 as stated: main processes the units one after another, goes on to the next
\* unit after one has failed, and exits with a non-zero code if and only if
\* process_ticket_work returned False for at least one unit.
C24_NonZeroIffUnitFailed ==
    m_pc = "ended" => (m_exit # 0 <=> FailedTickets(m_outcomes) # {})

\* C24, amended: main processes the units in the order given, and a unit for which
\* process_ticket_work returned False does not stop the loop; if
\* process_ticket_work returned False for a unit the exit code is non-zero; the
\* exit code is 0 only if every unit was processed and each returned True or was
\* skipped as complete; and when the loop has reached its end and no signal
\* arrived, the exit code is non-zero exactly if some unit returned False.
C24_ExitCode ==
    m_pc = "ended" =>
        /\ FailedTickets(m_outcomes) # {} => m_exit # 0
        /\ m_exit = 0 =>
              /\ Len(m_outcomes) = m_config.num_tickets
              /\ \A i \in 1..Len(m_outcomes) : m_outcomes[i] \in {"returned True", "skipped"}
        /\ (m_signals = <<>> /\ OrdinaryOutcomes /\ m_outcomes # <<>>) =>
              /\ Len(m_outcomes) = m_config.num_tickets
              /\ m_exit # 0 <=> FailedTickets(m_outcomes) # {}

\* two units without a signal: the first returned False, the second was processed
\* and returned True, and the process ended with status 1
C24_Witness ==
    /\ m_pc = "ended"
    /\ m_signals = <<>>
    /\ m_outcomes = <<"returned False", "returned True">>
    /\ m_exit = 1

\* C25: once create_session_worktree has returned a path, the worktree is removed
\* on every way the process can end, and remove_worktree is called at most once.
C25_WorktreeRemovedOnce ==
    /\ m_removes <= 1
    /\ (m_pc = "ended" /\ m_tree # "none") => (m_tree = "removed" /\ m_removes = 1)

(***************************************************************************)
(* SpecPreflight: one call of run_preflight on up to MaxCommands test      *)
(* commands, the commands running in the threads of the pool while the     *)
(* main thread submits them and then collects the futures as they complete.*)
(***************************************************************************)
notPreflight == <<docVars, verifyVars, workVars, storeVars, gitVars, commitVars, callVars,
                 sessionVars>>

\* len(config["tests"]) is at most MaxCommands
MaxCommands == 3

\* the "preflight" key of a test command: absent, true or false
PreflightKeys == {"absent", "true", "false"}

\* how a command run by _run_preflight_command ends (verify.py 61-82): exit status
\* 0, another exit status, or subprocess.TimeoutExpired
CommandEnds == {"passed", "failed", "timed out"}

\* c.get("preflight", True)
Selected_all(cmd) == TRUE
Selected(cmd) == cmd # "false"

\* preflight_commands (verify.py 121-123), as positions in config["tests"]
preflight_commands == {i \in 1..Len(p_cmds) : Selected(p_cmds[i])}

NoFuture == [state |-> "none", ended |-> "", runs |-> 0]

PreflightInit ==
    /\ p_pc = "start"
    /\ p_cmds \in UNION {[1..n -> PreflightKeys] : n \in 0..MaxCommands}
    /\ p_futures = [i \in 1..Len(p_cmds) |-> NoFuture]
    /\ p_seen = {}
    /\ p_failures = <<>>
    /\ p_return = FALSE
    /\ DocIdle
    /\ VerifyIdle
    /\ WorkIdle
    /\ StoreIdle
    /\ GitIdle
    /\ CommitIdle
    /\ CallIdle
    /\ SessionIdle

\* run_preflight up to the pool (verify.py 116-131): True at once when no command
\* is selected
PreflightStart ==
    /\ p_pc = "start"
    /\ IF preflight_commands = {}
       THEN p_pc' = "returned" /\ p_return' = TRUE
       ELSE p_pc' = "submit" /\ UNCHANGED p_return
    /\ UNCHANGED <<p_cmds, p_futures, p_seen, p_failures, notPreflight>>

\* the commands not submitted yet
Unsubmitted == {i \in preflight_commands : p_futures[i].state = "none"}

\* executor.submit(_run_preflight_command, cmd, timeout) for the next command
\* (verify.py 133-137); max_workers is the number of commands, so its thread starts
PreflightSubmit ==
    /\ p_pc = "submit"
    /\ LET i == SetMin(Unsubmitted)
       IN  /\ p_futures' = [p_futures EXCEPT ![i].state = "running"]
           /\ p_pc' = IF Unsubmitted = {i} THEN "collect" ELSE "submit"
    /\ UNCHANGED <<p_cmds, p_seen, p_failures, p_return, notPreflight>>

\* _run_preflight_command returns in the thread of one command (verify.py 61-82)
PreflightCommandEnds ==
    /\ \E i \in 1..Len(p_cmds), ended \in CommandEnds :
         /\ p_futures[i].state = "running"
         /\ p_futures' = [p_futures EXCEPT ![i] = [state |-> "done", ended |-> ended,
                                                   runs |-> @.runs + 1]]
    /\ UNCHANGED <<p_pc, p_cmds, p_seen, p_failures, p_return, notPreflight>>

\* one pass of `for future in as_completed(futures)` (verify.py 138-143)
PreflightCollect ==
    /\ p_pc = "collect"
    /\ \E i \in preflight_commands \ p_seen :
         /\ p_futures[i].state = "done"
         /\ p_seen' = p_seen \cup {i}
         /\ p_failures' = IF p_futures[i].ended = "passed" THEN p_failures
                          ELSE Append(p_failures, i)
    /\ UNCHANGED <<p_pc, p_cmds, p_futures, p_return, notPreflight>>

\* return len(failures) == 0
PreflightPassed_always(failures) == TRUE
PreflightPassed(failures) == Len(failures) = 0

\* as_completed is exhausted, the pool is shut down with wait=True on leaving the
\* with block, and run_preflight returns (verify.py 144-149)
PreflightReturn ==
    /\ p_pc = "collect"
    /\ p_seen = preflight_commands
    /\ p_return' = PreflightPassed(p_failures)
    /\ p_pc' = "returned"
    /\ UNCHANGED <<p_cmds, p_futures, p_seen, p_failures, notPreflight>>

PreflightNext ==
    \/ PreflightStart
    \/ PreflightSubmit
    \/ PreflightCommandEnds
    \/ PreflightCollect
    \/ PreflightReturn

SpecPreflight == PreflightInit /\ [][PreflightNext]_vars

\* C26: for every interleaving and completion order of the preflight commands,
\* run_preflight returns only after every selected command has finished, has run
\* each selected command exactly once (and no other command), also when another
\* one failed or timed out, and returns True if and only if all of them passed.
C26_PreflightAllOnce ==
    p_pc = "returned" =>
        /\ \A i \in 1..Len(p_cmds) :
              IF p_cmds[i] # "false"
              THEN p_futures[i].state = "done" /\ p_futures[i].runs = 1
              ELSE p_futures[i].state = "none" /\ p_futures[i].runs = 0
        /\ p_return <=> \A i \in 1..Len(p_cmds) :
                            p_cmds[i] # "false" => p_futures[i].ended = "passed"

\* three commands, the second not selected: the third timed out and was collected
\* first, the first failed and was collected after it, and run_preflight returned
\* False
C26_Witness ==
    /\ p_pc = "returned"
    /\ p_cmds = <<"absent", "false", "true">>
    /\ p_futures[1].ended = "failed"
    /\ p_futures[3].ended = "timed out"
    /\ p_failures = <<3, 1>>
    /\ ~p_return

(***************************************************************************)
(* SpecSuffix: one call of find_next_suffix on a list of branch names.     *)
(***************************************************************************)
\* the base the next branch name is built from
SuffixBase == <<"e", "-", "1">>

\* a character str.isdigit() accepts and int() does not: the superscript two
SuperscriptTwo == "sup2"

\* the branches `git branch --list` may return: the base, the base with decimal
\* suffixes, with a leading zero, with an empty, a non-numeric and a superscript
\* suffix, and a branch of another base
BranchNames ==
    << SuffixBase,
       SuffixBase \o <<"-">>,
       SuffixBase \o <<"-", "0", "3">>,
       SuffixBase \o <<"-", "1", "0">>,
       SuffixBase \o <<"-", "2">>,
       SuffixBase \o <<"-", "5">>,
       SuffixBase \o <<"-", "x">>,
       SuffixBase \o <<"-", SuperscriptTwo>>,
       SuffixBase \o <<"0", "-", "7">> >>

RECURSIVE Picked(_, _)
\* the names of BranchNames at the positions in S, from position k on, in order
Picked(S, k) ==
    IF k > Len(BranchNames) THEN <<>>
    ELSE IF k \in S THEN <<BranchNames[k]>> \o Picked(S, k + 1)
    ELSE Picked(S, k + 1)

\* at most MaxBranches branches match
MaxBranches == 4

\* suffix_part.isdigit(): not empty, and every character is a digit, where
\* superscript digits count as digits
isdigit_ascii(s) == Len(s) > 0 /\ \A i \in 1..Len(s) : IsDigit(s[i])
isdigit(s) == Len(s) > 0 /\ \A i \in 1..Len(s) : IsDigit(s[i]) \/ s[i] = SuperscriptTwo

\* what find_next_suffix leaves when int() raised ValueError
ValueError == 0 - 2

\* max(max_suffix, n)
Max2(a, b) == IF a >= b THEN a ELSE b

\* one pass of `for b in branches` (git/branch.py 51-57)
SuffixStep(max_suffix, b, base) ==
    IF b = base THEN Max2(max_suffix, 1)
    ELSE IF StartsWith(b, base \o <<"-">>)
    THEN LET suffix_part == SubSeq(b, Len(base) + 2, Len(b))
         IN  IF isdigit(suffix_part)
             THEN IF IntOfStr(suffix_part) = NoneInt THEN ValueError
                  ELSE Max2(max_suffix, IntOfStr(suffix_part))
             ELSE max_suffix
    ELSE max_suffix

RECURSIVE SuffixLoop(_, _, _, _)
SuffixLoop(branches, base, k, max_suffix) ==
    IF max_suffix = ValueError \/ k > Len(branches) THEN max_suffix
    ELSE SuffixLoop(branches, base, k + 1, SuffixStep(max_suffix, branches[k], base))

\* find_next_suffix (git/branch.py 48-58): the suffix, or ValueError
find_next_suffix(branches, base) ==
    LET max_suffix == SuffixLoop(branches, base, 1, 1)
    IN  IF max_suffix = ValueError THEN ValueError ELSE max_suffix + 1

SuffixInit ==
    /\ f_pc = "input"
    /\ \E S \in SUBSET (1..Len(BranchNames)) :
         /\ Cardinality(S) <= MaxBranches
         /\ f_in = [branches |-> Picked(S, 1), base |-> SuffixBase]
    /\ f_out = <<>>
    /\ DocIdle
    /\ VerifyIdle
    /\ WorkIdle
    /\ StoreIdle
    /\ GitIdle
    /\ CommitIdle
    /\ SessionIdle
    /\ PreflightIdle

SuffixCall ==
    /\ f_pc = "input"
    /\ f_out' = find_next_suffix(f_in.branches, f_in.base)
    /\ f_pc' = "done"
    /\ UNCHANGED <<f_in, notCall>>

SpecSuffix == SuffixInit /\ [][SuffixCall]_vars

\* the numeric suffixes N of the branches named base-N
NumericSuffixes(branches, base) ==
    { IntOfStr(SubSeq(branches[i], Len(base) + 2, Len(branches[i]))) :
        i \in { j \in 1..Len(branches) :
                  /\ StartsWith(branches[j], base \o <<"-">>)
                  /\ isdigit_ascii(SubSeq(branches[j], Len(base) + 2, Len(branches[j]))) } }

\* C27: find_next_suffix(branches, base) returns an integer >= 2 that is strictly
\* greater than every numeric suffix N of a branch named base-N in branches (6
\* for {base, base-2, base-5}), so base-<result> is not one of the branches;
\* non-numeric suffixes are ignored.
C27_NextSuffixIsFree ==
    f_pc = "done" =>
        /\ f_out >= 2
        /\ \A n \in NumericSuffixes(f_in.branches, f_in.base) : f_out > n
        /\ \A i \in 1..Len(f_in.branches) :
              f_in.branches[i] # f_in.base \o <<"-">> \o StrOfInt(f_out)
        /\ f_in.branches = <<SuffixBase, SuffixBase \o <<"-", "2">>, SuffixBase \o <<"-", "5">> >>
              => f_out = 6

(***************************************************************************)
(* SpecFind: one call of find_state_comment on a list of up to MaxComments *)
(* comments of the issue.                                                  *)
(***************************************************************************)
\* list_comments returns at most MaxComments comments
MaxComments == 3

\* the bodies of the comments of an issue: two Progress Documents with the lisa
\* header, one with the legacy tralph header, a comment of a user, an empty body
LisaComment == <<StateHeader, <<"n", "e", "w">> >>
LisaCommentOlder == <<StateHeader, <<"o", "l", "d">> >>
LegacyComment == <<LegacyHeader, <<"l", "e", "g", "a", "c", "y">> >>
UserComment == << <<"L", "G", "T", "M">> >>
IssueComments == {LisaComment, LisaCommentOlder, LegacyComment, UserComment, <<>>}

CommentLists == UNION { [1..n -> IssueComments] : n \in 0..MaxComments }

FindInit ==
    /\ f_pc = "input"
    /\ f_in \in CommentLists
    /\ f_out = <<>>
    /\ DocIdle
    /\ VerifyIdle
    /\ WorkIdle
    /\ StoreIdle
    /\ GitIdle
    /\ CommitIdle
    /\ SessionIdle
    /\ PreflightIdle

\* find_state_comment(issue_id, branch_name) (state/comment.py 48-60)
FindCall ==
    /\ f_pc = "input"
    /\ f_out' = find_state_comment(f_in)
    /\ f_pc' = "done"
    /\ UNCHANGED <<f_in, notCall>>

SpecFind == FindInit /\ [][FindCall]_vars

\* the positions of the comments whose body starts with the given header
WithHeader(comments, header) ==
    {i \in 1..Len(comments) : comments[i] # <<>> /\ StartsWith(comments[i][1], header)}

\* C34: when the issue has both a comment with the lisa header and a comment with
\* the legacy tralph header for the branch, find_state_comment returns a lisa one,
\* whatever the order of the comments in the list.
C34_LisaHeaderPreferred ==
    (/\ f_pc = "done"
     /\ WithHeader(f_in, StateHeader) # {}
     /\ WithHeader(f_in, LegacyHeader) # {})
        => f_out \in WithHeader(f_in, StateHeader)

(***************************************************************************)
(* SpecSort: one call of sort_by_dependencies (phases/planning.py 17-52)   *)
(* on up to MaxSubtasks subtasks with distinct ids, one action per         *)
(* iteration of its while loop.  A subtask is [id, blockedBy]; blockedBy   *)
(* is taken as the set of the ids of its list.                             *)
(***************************************************************************)
\* len(subtasks) is at most MaxSubtasks
MaxSubtasks == 3
\* a subtask is blocked by at most MaxBlockers issues
MaxBlockers == 2

\* the identifiers of the children of the ticket, and of an issue that is not one
SubtaskIds == {"A", "B", "C"}
ExternalId == "EXT"

BlockerSets == {S \in SUBSET (SubtaskIds \cup {ExternalId}) : Cardinality(S) <= MaxBlockers}

\* the subtask lists fetch_ticket returns: distinct identifiers, any blockers
SubtaskLists ==
    UNION { { l \in [1..n -> [id : SubtaskIds, blockedBy : BlockerSets]] :
                \A i, j \in 1..n : i # j => l[i].id # l[j].id } : n \in 0..MaxSubtasks }

\* s["_blocked_by"] = [b for b in s.get("blockedBy", []) if b in subtask_ids]
WithSiblingBlockers(subtasks) ==
    LET subtask_ids == {subtasks[i].id : i \in 1..Len(subtasks)}
    IN  [i \in 1..Len(subtasks) |->
           [id |-> subtasks[i].id, blockedBy |-> subtasks[i].blockedBy,
            blocked_by |-> subtasks[i].blockedBy \cap subtask_ids]]

\* all(b in done_ids for b in s["_blocked_by"])
NoOpenBlocker_ever(s, done_ids) == TRUE
NoOpenBlocker(s, done_ids) == s.blocked_by \subseteq done_ids

\* list.remove(x): the list without its first element equal to x
RemoveFirst(seq, x) ==
    LET first == SetMin({i \in 1..Len(seq) : seq[i] = x})
    IN  [i \in 1..(Len(seq) - 1) |-> IF i < first THEN seq[i] ELSE seq[i + 1]]

\* s.pop("_blocked_by", None) for every s of the result
WithoutTemp(result) ==
    [i \in 1..Len(result) |-> [id |-> result[i].id, blockedBy |-> result[i].blockedBy]]

SortInit ==
    /\ f_pc = "input"
    /\ f_in \in SubtaskLists
    /\ f_out = <<>>
    /\ DocIdle
    /\ VerifyIdle
    /\ WorkIdle
    /\ StoreIdle
    /\ GitIdle
    /\ CommitIdle
    /\ SessionIdle
    /\ PreflightIdle

\* planning.py 19-33: the empty list is returned as it is; otherwise the temp
\* field is set and the loop starts with all subtasks remaining
SortStart ==
    /\ f_pc = "input"
    /\ IF f_in = <<>>
       THEN /\ f_pc' = "done"
            /\ f_out' = [result |-> <<>>, remaining |-> <<>>, returned |-> f_in]
       ELSE /\ f_pc' = "loop"
            /\ f_out' = [result |-> <<>>, remaining |-> WithSiblingBlockers(f_in),
                         returned |-> <<>>]
    /\ UNCHANGED <<f_in, notCall>>

\* one iteration of while remaining: (planning.py 35-47)
SortIteration ==
    /\ f_pc = "loop"
    /\ f_out.remaining # <<>>
    /\ LET done_ids == {f_out.result[i].id : i \in 1..Len(f_out.result)}
           unblocked == SelectSeq(f_out.remaining, LAMBDA s : NoOpenBlocker(s, done_ids))
       IN  IF unblocked = <<>>
           THEN /\ f_out' = [f_out EXCEPT !.result = @ \o f_out.remaining]
                /\ f_pc' = "cleanup"
           ELSE /\ f_out' = [f_out EXCEPT !.result = Append(@, unblocked[1]),
                                          !.remaining = RemoveFirst(@, unblocked[1])]
                /\ f_pc' = "loop"
    /\ UNCHANGED <<f_in, notCall>>

\* the loop is left (remaining is empty, or break): the temp field is removed and
\* the result returned (planning.py 49-52)
SortReturn ==
    /\ \/ f_pc = "cleanup"
       \/ f_pc = "loop" /\ f_out.remaining = <<>>
    /\ f_out' = [f_out EXCEPT !.returned = WithoutTemp(f_out.result)]
    /\ f_pc' = "done"
    /\ UNCHANGED <<f_in, notCall>>

SortNext == SortStart \/ SortIteration \/ SortReturn

SpecSort == SortInit /\ [][SortNext]_vars /\ WF_vars(SortNext)

\* the position of the subtask with the given id in a list
PositionOf(subtasks, id) == SetMin({i \in 1..Len(subtasks) : subtasks[i].id = id})

\* the ids of the siblings that block the subtask
SiblingBlockers(subtasks, s) == s.blockedBy \cap {subtasks[i].id : i \in 1..Len(subtasks)}

\* the blockedBy relation among the siblings has no cycle: some order of the
\* subtasks puts every subtask after its sibling blockers
Orders(n) == {p \in [1..n -> 1..n] : \A i, j \in 1..n : i # j => p[i] # p[j]}
Acyclic(subtasks) ==
    \E p \in Orders(Len(subtasks)) :
        \A i, j \in 1..Len(subtasks) :
            subtasks[j].id \in SiblingBlockers(subtasks, subtasks[i]) => p[j] < p[i]

\* what holds of the list sort_by_dependencies returns
SortedByDependencies ==
    f_pc = "done" =>
        /\ Len(f_out.returned) = Len(f_in)
        /\ \A i \in 1..Len(f_in) : \E k \in 1..Len(f_in) : f_out.returned[k] = f_in[i]
        /\ Acyclic(f_in) =>
             \A i \in 1..Len(f_in) : \A b \in SiblingBlockers(f_in, f_in[i]) :
                 PositionOf(f_out.returned, b) < PositionOf(f_out.returned, f_in[i].id)
        /\ \A i, j \in 1..Len(f_in) :
             (/\ i < j
              /\ SiblingBlockers(f_in, f_in[i]) = {}
              /\ SiblingBlockers(f_in, f_in[j]) = {})
                 => PositionOf(f_out.returned, f_in[i].id)
                        < PositionOf(f_out.returned, f_in[j].id)

\* C35: sort_by_dependencies returns a permutation of its input for every input
\* and always terminates, also on cyclic blockedBy relations; when the blockedBy
\* relation among the sibling subtasks is acyclic, every subtask appears after
\* all of its sibling blockers; blockers that are not siblings are ignored; and
\* subtasks without sibling blockers keep their input order.
C35_SortTerminatesOrdered == []SortedByDependencies /\ <>(f_pc = "done")

\* three subtasks given in the reverse of their dependency order, the first also
\* blocked by an issue that is not a sibling
C35_Witness ==
    /\ f_pc = "done"
    /\ Len(f_in) = 3
    /\ f_in[1] = [id |-> "C", blockedBy |-> {"B", ExternalId}]
    /\ f_in[2] = [id |-> "B", blockedBy |-> {"A"}]
    /\ f_in[3] = [id |-> "A", blockedBy |-> {}]
    /\ f_out.returned = <<f_in[3], f_in[2], f_in[1]>>

(***************************************************************************)
(* SpecStore: the Progress Document comments of one issue and branch over  *)
(* MaxRuns runs of main(), with list, create and update calls that may     *)
(* fail. An iteration is reduced to what it does to the fields that reach  *)
(* the document: the current step is marked done or not and the work call  *)
(* reports decision records or not.                                        *)
(***************************************************************************)
notStore == <<docVars, verifyVars, workVars, gitVars, commitVars, moreVars>>

\* the plans run_planning_phase returns here: two plain steps, the first with one
\* file operation, or that first step alone
StoreStep(id, description, files) ==
    [id |-> id, ticket |-> <<>>, description |-> description, done |-> FALSE, files |-> files]
StorePlan ==
    << StoreStep(1, <<"a">>, << [op |-> <<"c">>, path |-> <<"f">>] >>),
       StoreStep(2, <<"b">>, <<>>) >>
StorePlans == { StorePlan, SubSeq(StorePlan, 1, 1) }

\* the decision records of the planning phase, relabelled P.1 (cli.py 779-780)
PlanningAssumptions == { <<>>, << Assumption(<<"P", ".", "1">>, TRUE, <<"s">>, <<"r">>) >> }
\* the decision records of the work call of an iteration, relabelled
\* "<iteration>.1" (handle_assumptions, work.py 327-329)
WorkAssumptions(iteration) ==
    { <<>>, << Assumption(StrOfInt(iteration) \o <<".", "1">>, FALSE, <<"w">>, <<>>) >> }

\* time.strftime("%H:%M") followed by a blank
Timestamp == <<"ts", " ">>
\* the entry main() logs with the first save
PlanCreated == Timestamp \o <<"P", "l", "a", "n", " ", "c", "r", "e", "a", "t", "e", "d">>
\* the entry handle_save_state builds (work.py 543-550), with its timestamp
IterationEntry(iteration, current_step, step_done) ==
    Cat(<< Timestamp, <<"I", "t", "e", "r", " ">>, StrOfInt(iteration),
           <<" ", "-", " ", "s", "t", "e", "p", " ">>, StrOfInt(current_step),
           IF step_done THEN <<" ", "ok">> ELSE <<" ", "i", "n", " ", "p", "r", "o", "g", "r", "e", "s", "s">> >>)

\* save_state: what it leaves in the list it was given as existing_log ("existing_log
\* or []" is a new list when the one given is empty, else the entry is inserted in
\* the list itself)
LogAfterSave(existing_log, entry) ==
    IF existing_log = <<>> THEN <<>> ELSE <<entry>> \o existing_log

\* save_state(...) with comment_id: the comments after the call (update_comment when
\* an id is given, else create_comment; no change when the call fails)
CommentsAfterSave(comments, comment_id, body, ok) ==
    IF ~ok THEN comments
    ELSE IF comment_id # 0 THEN [comments EXCEPT ![comment_id] = body]
    ELSE Append(comments, body)
\* ... and the id it returns (0 is None)
SavedId(comments, comment_id, ok) ==
    IF ~ok THEN 0 ELSE IF comment_id # 0 THEN comment_id ELSE Len(comments) + 1

StoreInit ==
    /\ s_pc = "start"
    /\ s_comments = <<>>
    /\ s_ctx = NoStoreContext
    /\ s_runs = 0
    /\ s_obs = NoStoreObs
    /\ DocIdle
    /\ VerifyIdle
    /\ WorkIdle
    /\ GitIdle
    /\ CommitIdle
    /\ MoreIdle

\* main() for the ticket up to process_ticket_work (cli.py 722-869): fetch_state,
\* the planning phase and the first save when no plan was read, the "All plan
\* steps complete" exit
StoreMain ==
    /\ s_pc = "start"
    /\ s_runs < MaxRuns
    /\ \E list_ok \in BOOLEAN, create_ok \in BOOLEAN, plan \in StorePlans,
          assumptions \in PlanningAssumptions :
       \E read \in {fetch_state(IF list_ok THEN s_comments ELSE <<>>)},
          body \in {build_state_comment(0, plan[1].id, plan, <<PlanCreated>>, assumptions)} :
         LET planning == read.plan_steps = <<>>
             plan_steps == IF planning THEN plan ELSE read.plan_steps
             comment_id == IF planning THEN SavedId(s_comments, 0, create_ok)
                           ELSE read.comment_id
         IN  /\ (~planning) => (create_ok /\ plan = StorePlan /\ assumptions = <<>>)
             /\ s_comments' = IF planning THEN CommentsAfterSave(s_comments, 0, body, create_ok)
                              ELSE s_comments
             /\ s_ctx' = [comment_id |-> comment_id,
                          plan_steps |-> plan_steps,
                          all_assumptions |-> IF planning THEN assumptions ELSE <<>>,
                          log_entries |-> IF planning THEN <<PlanCreated>> ELSE <<>>,
                          state_iteration |-> read.iterations,
                          loop_iter |-> 0]
             /\ s_obs' = [resumed |-> read.comment_id # 0,
                          read_body |-> IF read.comment_id # 0 THEN s_comments[read.comment_id]
                                        ELSE <<>>,
                          first_save |-> IF planning /\ create_ok THEN body ELSE <<>>]
             /\ s_pc' = IF Incomplete(plan_steps) = <<>> THEN "ended" ELSE "work"
    /\ s_runs' = s_runs + 1
    /\ UNCHANGED notStore

\* One iteration of process_ticket_work that reaches SAVE_STATE (work.py 730-762):
\* the handlers from SELECT_STEP to COMMIT_CHANGES as far as they change the plan
\* and the decision records, then handle_save_state (work.py 541-572).
StoreIteration ==
    /\ s_pc = "work"
    /\ s_ctx.loop_iter < MaxIterations
    /\ Incomplete(s_ctx.plan_steps) # <<>>
    /\ \E step_done \in BOOLEAN, save_ok \in BOOLEAN :
         LET iteration == s_ctx.state_iteration + s_ctx.loop_iter + 1
             current_step == NextId(s_ctx.plan_steps)
         IN  \E work_assumptions \in WorkAssumptions(iteration),
                plan_steps \in {IF step_done THEN MarkDone(s_ctx.plan_steps, current_step)
                                ELSE s_ctx.plan_steps},
                entry \in {IterationEntry(iteration, current_step, step_done)} :
             \E body \in {build_state_comment(iteration, NextId(plan_steps), plan_steps,
                                               <<entry>> \o s_ctx.log_entries,
                                               s_ctx.all_assumptions \o work_assumptions)} :
               LET all_assumptions == s_ctx.all_assumptions \o work_assumptions
                   new_comment_id == SavedId(s_comments, s_ctx.comment_id, save_ok)
                   log_entries == LogAfterSave(s_ctx.log_entries, entry)
               IN  /\ s_comments' = CommentsAfterSave(s_comments, s_ctx.comment_id, body, save_ok)
                   /\ s_ctx' = [s_ctx EXCEPT
                          !.loop_iter = @ + 1,
                          !.plan_steps = plan_steps,
                          !.all_assumptions = all_assumptions,
                          !.comment_id = IF new_comment_id # 0 THEN new_comment_id ELSE @,
                          !.log_entries = IF new_comment_id # 0 THEN <<entry>> \o log_entries
                                          ELSE log_entries]
                   /\ s_obs' = [s_obs EXCEPT
                          !.first_save = IF @ = <<>> /\ new_comment_id # 0 THEN body ELSE @]
    /\ UNCHANGED <<s_pc, s_runs, notStore>>

\* The iteration whose handle_select_step finds no step left: ALL_DONE,
\* handle_all_done and return True (work.py 756-758); of handle_all_done, the
\* review guide it adds to the comment find_state_comment finds.
StoreAllDone ==
    /\ s_pc = "work"
    /\ s_ctx.loop_iter < MaxIterations
    /\ Incomplete(s_ctx.plan_steps) = <<>>
    /\ \E list_ok \in BOOLEAN, update_ok \in BOOLEAN :
         LET id == find_state_comment(IF list_ok THEN s_comments ELSE <<>>)
         IN  /\ (id = 0) => update_ok
             /\ s_comments' = IF id # 0 /\ update_ok
                              THEN [s_comments EXCEPT ![id] = WithConclusion(@)]
                              ELSE s_comments
    /\ s_pc' = "ended"
    /\ UNCHANGED <<s_ctx, s_runs, s_obs, notStore>>

\* the loop runs out: handle_max_iterations, and process_ticket_work returns False
\* (work.py 773-775)
StoreMaxIterations ==
    /\ s_pc = "work"
    /\ s_ctx.loop_iter >= MaxIterations
    /\ s_pc' = "ended"
    /\ UNCHANGED <<s_comments, s_ctx, s_runs, s_obs, notStore>>

\* the process ends, killed between two iterations or after its run: what it held
\* in memory is gone, and main() can be started again
StoreEnds ==
    /\ s_pc \in {"work", "ended"}
    /\ s_runs < MaxRuns
    /\ s_pc' = "start"
    /\ s_ctx' = NoStoreContext
    /\ s_obs' = NoStoreObs
    /\ UNCHANGED <<s_comments, s_runs, notStore>>

StoreNext == StoreMain \/ StoreIteration \/ StoreAllDone \/ StoreMaxIterations \/ StoreEnds

SpecStore == StoreInit /\ [][StoreNext]_vars

\* the lines of a body that are decision records, per-step file operations and
\* log entries
IsRecordLine(line) == AssumptionMatch(line) # NoAssumption
IsFileLine(line) == StartsWith(line, <<" ", " ", "-", " ", "tick">>)
IsLogLine(line) == StartsWith(line, <<"-", " ">> \o Timestamp)
LinesOf(body) == {body[i] : i \in 1..Len(body)}

\* C12: after a run is resumed from an existing Progress Document, the first
\* document it saves still contains every decision record, every per-step
\* file-operation line and every log entry that the document held when it was
\* read at start.
C12_FirstSaveKeepsContent ==
    (s_obs.resumed /\ s_obs.first_save # <<>>) =>
        \A line \in LinesOf(s_obs.read_body) :
            (IsRecordLine(line) \/ IsFileLine(line) \/ IsLogLine(line))
                => line \in LinesOf(s_obs.first_save)

\* C15: for one issue and branch, over any run (fresh or resumed) and any pattern of
\* failing list/create/update calls, at most one Progress Document comment is ever
\* created; once a comment id is known, every later save updates that comment
\* instead of creating another.
C15_OneDocument ==
    [][/\ Len(s_comments') <= 1
       /\ (s_pc = "work" /\ s_ctx.comment_id # 0) => Len(s_comments') = Len(s_comments)]_vars

(***************************************************************************)
(* SpecRecords: the decision records of one call of process_ticket_work.   *)
(* f_in is what main() puts in the WorkContext, f_out the context as the   *)
(* handlers leave it, f_pc the WorkState.  Of the context only the fields  *)
(* that decide the records and their ids are kept; the plan is taken to    *)
(* have more steps than the budget has iterations, so SELECT_STEP always   *)
(* goes on to EXECUTE_WORK.                                                *)
(***************************************************************************)
\* a work result carries at most MaxDecisions decision records
MaxDecisions == 2
\* the accumulated list is followed up to MaxRecords records
MaxRecords == 4

\* the decision records of a work result, before handle_assumptions relabels
\* them: the ids the backend gave are 1, 2, ...
WorkDecisions(n) ==
    [i \in 1..n |-> Assumption(StrOfInt(i), TRUE, <<"w">>, <<>>)]

\* the work results of handle_execute_work, as far as the records depend on them
RecordResults ==
    { [step_done |-> sd, blocked |-> b, assumptions |-> WorkDecisions(n)] :
        sd \in {NoneInt, 1}, b \in {None, <<"k", "e", "y">>}, n \in 0..MaxDecisions }

\* what main() passes: the iteration count read from the Progress Document, and
\* the decision records of the planning phase as assumptions and all_assumptions
\* (cli.py 759-799, 842-867)
RecordsInit ==
    /\ f_pc = "input"
    /\ \E state_iteration \in 0..1, planned \in PlanningAssumptions :
         f_in = [state_iteration |-> state_iteration, assumptions |-> planned,
                 all_assumptions |-> planned]
    /\ f_out = <<>>
    /\ DocIdle
    /\ VerifyIdle
    /\ WorkIdle
    /\ StoreIdle
    /\ GitIdle
    /\ CommitIdle
    /\ SessionIdle
    /\ PreflightIdle

\* process_ticket_work up to the first EXECUTE_WORK (work.py 726-754)
RecordsEnter ==
    /\ f_pc = "input"
    /\ f_out' = [current_step |-> 1, state_iteration |-> f_in.state_iteration,
                 loop_iter |-> 1, work_result |-> [step_done |-> NoneInt, blocked |-> None,
                                                   assumptions |-> <<>>],
                 assumptions |-> f_in.assumptions,
                 all_assumptions |-> f_in.all_assumptions,
                 step_done |-> FALSE, tests_passed |-> TRUE, review_status |-> "skipped",
                 verify_attempts |-> 0]
    /\ f_pc' = "EXECUTE_WORK"
    /\ UNCHANGED <<f_in, notCall>>

\* handle_execute_work: ctx.work_result (work.py 303-313)
RecordsWork ==
    /\ f_pc = "EXECUTE_WORK"
    /\ Len(f_out.all_assumptions) <= MaxRecords
    /\ \E work_result \in RecordResults :
         f_out' = [f_out EXCEPT !.work_result = work_result]
    /\ f_pc' = "HANDLE_ASSUMPTIONS"
    /\ UNCHANGED <<f_in, notCall>>

\* WorkContext.iteration (models/state.py 121-124)
Iteration(c) == c.state_iteration + c.loop_iter

\* a.id = f"{ctx.iteration}.{i}" for the i-th record of the work result
\* (work.py 327-329)
WorkRecordId(c, i) == Cat(<<StrOfInt(Iteration(c)), <<".">>, StrOfInt(i)>>)

\* handle_assumptions (work.py 316-351) without the editor of the interactive mode
RecordsAssumptions ==
    /\ f_pc = "HANDLE_ASSUMPTIONS"
    /\ LET given == f_out.work_result.assumptions
           work_assumptions ==
               [i \in 1..Len(given) |-> [given[i] EXCEPT !.id = WorkRecordId(f_out, i)]]
       IN  f_out' = [f_out EXCEPT !.assumptions = @ \o work_assumptions,
                                  !.all_assumptions = @ \o work_assumptions]
    /\ f_pc' = "CHECK_COMPLETION"
    /\ UNCHANGED <<f_in, notCall>>

\* handle_check_completion (work.py 366-403)
RecordsCheck ==
    /\ f_pc = "CHECK_COMPLETION"
    /\ f_out' = check_completion(f_out).ctx
    /\ f_pc' = check_completion(f_out).state
    /\ UNCHANGED <<f_in, notCall>>

\* handle_verify_step (work.py 406-495): passed, retried or given up
RecordsVerify ==
    /\ f_pc = "VERIFY_STEP"
    /\ \E passed \in BOOLEAN :
         IF passed
         THEN /\ f_out' = [f_out EXCEPT !.verify_attempts = 0, !.tests_passed = TRUE]
              /\ f_pc' = "COMMIT_CHANGES"
         ELSE /\ f_out' = [f_out EXCEPT !.verify_attempts = @ + 1, !.tests_passed = FALSE]
              /\ f_pc' = IF RetryAllowed(f_out.verify_attempts + 1)
                         THEN "EXECUTE_WORK" ELSE "COMMIT_CHANGES"
    /\ UNCHANGED <<f_in, notCall>>

\* handle_commit_changes (work.py 498-538): ctx.assumptions is emptied when the
\* iteration has files to commit
RecordsCommit ==
    /\ f_pc = "COMMIT_CHANGES"
    /\ \E files_this_step \in BOOLEAN :
         f_out' = [f_out EXCEPT !.assumptions = IF files_this_step THEN <<>> ELSE @,
                                !.verify_attempts = 0]
    /\ f_pc' = "SAVE_STATE"
    /\ UNCHANGED <<f_in, notCall>>

\* handle_save_state and the next iteration's header and SELECT_STEP, or
\* handle_max_iterations and return False (work.py 730-775)
RecordsSave ==
    /\ f_pc = "SAVE_STATE"
    /\ IF f_out.loop_iter < MaxIterations
       THEN /\ f_out' = [f_out EXCEPT !.loop_iter = @ + 1]
            /\ f_pc' = "EXECUTE_WORK"
       ELSE /\ f_pc' = "returned False"
            /\ UNCHANGED f_out
    /\ UNCHANGED <<f_in, notCall>>

RecordsNext ==
    \/ RecordsEnter
    \/ RecordsWork
    \/ RecordsAssumptions
    \/ RecordsCheck
    \/ RecordsVerify
    \/ RecordsCommit
    \/ RecordsSave

SpecRecords == RecordsInit /\ [][RecordsNext]_vars

\* C40: in every reachable state the ids of the decision records in
\* ctx.all_assumptions are pairwise distinct: across several EXECUTE_WORK attempts
\* of one iteration, across iterations, across a resume, and including the
\* records created for blocked conditions.
C40_RecordIdsDistinct ==
    f_pc # "input" =>
        \A i, j \in 1..Len(f_out.all_assumptions) :
            i # j => f_out.all_assumptions[i].id # f_out.all_assumptions[j].id

====
